---- MODULE Spec2Model ----
(***************************************************************************)
(* Task synchronisation engine (src/services/sync_service.py) and caching  *)
(* task service (src/services/task_service.py) over the in-memory          *)
(* repositories and cache (src/repositories/memory.py).                    *)
(*                                                                         *)
(* A Python dict is modelled as a sequence of records with pairwise        *)
(* distinct keys, in insertion order.  An Optional[str] is a string or     *)
(* None; a title is a sequence of tokens so that startswith and            *)
(* concatenation are computed, not assumed.                                *)
(***************************************************************************)
EXTENDS Integers, Sequences, FiniteSets, TLC

VARIABLES
    team,       \* TaskService._team_repo._tasks = TaskSyncService._source_repo._tasks
    personal,   \* TaskService._personal_repo._tasks = TaskSyncService._dest_repo._tasks
    cache,      \* InMemoryCacheRepository._cache
    rules,      \* TaskSyncService._rules
    nextId,     \* number of identifiers TaskId.generate() has handed out
    senders,    \* NotificationService._senders
    out,        \* what the last operation returned or raised, and the calls it made
    hist,       \* what has happened since the last sync() call
    inflight    \* the coroutines started and not yet awaited to their end, each
                \* with the await it is suspended at and its local variables

vars == <<team, personal, cache, rules, nextId, senders, out, hist, inflight>>

----------------------------------------------------------------------------
(* Bounds of the exploration.                                              *)

MaxGen == 2       \* identifiers TaskId.generate() may hand out
MaxTime == 2      \* latest instant of a due date or of a reading of the clock
MaxSenders == 3   \* notification senders registered at once

----------------------------------------------------------------------------
(* Domain values, src/domain/models.py.                                    *)

None == "None"

TaskStatus == {"todo", "in_progress", "done", "blocked"}
TaskPriority == {"low", "medium", "high", "urgent"}
TaskSource == {"notion_team", "notion_personal", "slack_mention",
               "discord_mention", "manual"}

\* Python truthiness of an Optional[str]: None and "" are falsy.
Truthy(s) == s # None /\ s # ""

\* Task.metadata; dict.get(key) of an absent key is None.
NoMetadata == [sync_source_id |-> None, sync_source_db |-> None, assignees |-> <<>>]

\* A datetime: the instant t, and whether it carries a UTC offset (aware) or
\* none (naive, as datetime.now() is).  NoDate is the None of an
\* Optional[datetime].
DateTime(t, aware) == [set |-> TRUE, t |-> t, aware |-> aware]
NoDate == [set |-> FALSE, t |-> 0, aware |-> FALSE]

\* The dataclass Task with its defaults; created_at and updated_at are naive
\* instants.
Task(id, title, status, tags, external_id) ==
    [id |-> id, title |-> title, status |-> status, source |-> "notion_team",
     created_at |-> 0, updated_at |-> 0,
     description |-> None, priority |-> "medium", due_date |-> NoDate,
     assignee |-> None, tags |-> tags,
     external_id |-> external_id, metadata |-> NoMetadata]

\* d1 < d2 on datetimes: TypeError when one is naive and the other aware
DateLess(d1, d2) == [raised |-> d1.aware # d2.aware, value |-> d1.t < d2.t]

\* Task.is_overdue() when datetime.now() reads now
is_overdue(task, now) ==
    IF ~task.due_date.set THEN [raised |-> FALSE, value |-> FALSE]
    ELSE IF task.status = "done" THEN [raised |-> FALSE, value |-> FALSE]
    ELSE DateLess(task.due_date, DateTime(now, FALSE))

\* The dataclass TaskFilter; an Optional[list] criterion is the set of its
\* members ({} for None and for []), tags the list itself.
TaskFilter(status, priority, source, assignee, due_before, due_after, tags, limit, offset) ==
    [status |-> status, priority |-> priority, source |-> source,
     assignee |-> assignee, due_before |-> due_before, due_after |-> due_after,
     tags |-> tags, limit |-> limit, offset |-> offset]

\* filter = None
NoFilter == [filter |-> None]

\* s[lo:hi] of Python, on 0-based positions: a negative bound counts from the
\* end, and bounds are clamped to the list.
PySlice(s, lo, hi) ==
    LET n == Len(s)
        Clamp(x) == IF x < 0 THEN (IF x + n < 0 THEN 0 ELSE x + n)
                    ELSE IF x > n THEN n ELSE x
        a == Clamp(lo)
        b == Clamp(hi)
    IN IF a >= b THEN <<>> ELSE SubSeq(s, a + 1, b)

\* TaskId.generate(): the n-th fresh identifier (a uuid4 in the source).
GenerateId(n) == "g" \o ToString(n)

----------------------------------------------------------------------------
(* InMemoryTaskRepository and InMemoryCacheRepository,                     *)
(* src/repositories/memory.py.                                             *)

Range(s) == {s[i] : i \in DOMAIN s}
Keys(d) == {d[i].id : i \in DOMAIN d}
IndexOf(d, k) == CHOOSE i \in DOMAIN d : d[i].id = k

\* Optional[Task]: the absent task
NoTask == [id |-> None]

\* dict.get(key): the stored task, or None
DictGet(d, k) == IF k \in Keys(d) THEN d[IndexOf(d, k)] ELSE NoTask

\* d[key] = value: a present key keeps its position, a new key goes last
DictSet(d, t) ==
    IF t.id \in Keys(d) THEN [d EXCEPT ![IndexOf(d, t.id)] = t] ELSE Append(d, t)

\* del d[key]
DictDel(d, k) ==
    LET i == IndexOf(d, k) IN SubSeq(d, 1, i - 1) \o SubSeq(d, i + 1, Len(d))

get_by_id(repo, id) == DictGet(repo, id)

list_tasks(repo) == repo

exists(repo, id) == id \in Keys(repo)

\* Mutant of create: a stored identifier is overwritten instead of refused.
create_overwriting(repo, t) ==
    [raised |-> FALSE, repo |-> DictSet(repo, t), value |-> t]

\* create raises ValueError when the identifier is already stored
create(repo, t) ==
    IF t.id \in Keys(repo)
    THEN [raised |-> TRUE, repo |-> repo, value |-> NoTask]
    ELSE [raised |-> FALSE, repo |-> Append(repo, t), value |-> t]

\* Mutant of update: the stored task is left as it is.
update_nothing(repo, t) ==
    IF t.id \notin Keys(repo)
    THEN [raised |-> TRUE, repo |-> repo, value |-> NoTask]
    ELSE [raised |-> FALSE, repo |-> repo, value |-> t]

\* update raises ValueError when the identifier is not stored
update(repo, t) ==
    IF t.id \notin Keys(repo)
    THEN [raised |-> TRUE, repo |-> repo, value |-> NoTask]
    ELSE [raised |-> FALSE, repo |-> DictSet(repo, t), value |-> t]

delete(repo, id) ==
    IF id \in Keys(repo)
    THEN [value |-> TRUE, repo |-> DictDel(repo, id)]
    ELSE [value |-> FALSE, repo |-> repo]

cache_get(c, k) == DictGet(c, k)

cache_set(c, t) == DictSet(c, t)

\* Mutant of invalidate: the entry is left in the cache.
invalidate_nothing(c, k) == c

\* cache.invalidate(key)
invalidate(c, k) == IF k \in Keys(c) THEN DictDel(c, k) ELSE c

\* cache.get_all(): list(self._cache.values())
get_all(c) == c

\* cache.set_many(tasks): dict.update, entry by entry in the order of tasks
RECURSIVE set_many(_, _)
set_many(c, tasks) ==
    IF tasks = <<>> THEN c
    ELSE set_many(cache_set(c, Head(tasks)), Tail(tasks))

----------------------------------------------------------------------------
(* Predicate and field-transform builders, src/services/sync_service.py.   *)
(* A closure is the record of what it closes over.                         *)

tag_filter(tag) == [kind |-> "tag", tag |-> tag]
status_filter(statuses) == [kind |-> "status", statuses |-> statuses]
priority_filter(priorities) == [kind |-> "priority", priorities |-> priorities]
assignee_filter(name) == [kind |-> "assignee", name |-> name]

\* Mutant of combine_filters: the mode is ignored, every predicate must hold.
combine_filters_all(filters, mode) ==
    [kind |-> "combine", filters |-> filters, mode |-> "and"]

combine_filters(filters, mode) == [kind |-> "combine", filters |-> filters, mode |-> mode]

RECURSIVE ApplyFilter(_, _)
ApplyFilter(f, task) ==
    CASE f.kind = "tag" -> f.tag \in Range(task.tags)
      [] f.kind = "status" -> task.status \in f.statuses
      [] f.kind = "priority" -> task.priority \in f.priorities
      [] f.kind = "assignee" ->
            \/ task.assignee = f.name
            \/ f.name \in Range(task.metadata.assignees)
            \/ f.name \in Range(task.tags)
      [] f.kind = "combine" ->
            IF f.mode = "and"
            THEN \A i \in DOMAIN f.filters : ApplyFilter(f.filters[i], task)
            ELSE \E i \in DOMAIN f.filters : ApplyFilter(f.filters[i], task)

NoMapper == [kind |-> "none"]
strip_tags_mapper(tags_to_remove) == [kind |-> "strip_tags", tags |-> tags_to_remove]
prefix_title_mapper(prefix) == [kind |-> "prefix_title", prefix |-> prefix]

\* A caller's field mapper that supplies its own values for the two provenance
\* keys of the metadata.
provenance_mapper(source_id, source_db) ==
    [kind |-> "provenance", source_id |-> source_id, source_db |-> source_db]

StartsWith(s, prefix) ==
    Len(prefix) <= Len(s) /\ SubSeq(s, 1, Len(prefix)) = prefix

ApplyMapper(m, task) ==
    CASE m.kind = "none" -> task
      [] m.kind = "strip_tags" ->
            [task EXCEPT !.tags = SelectSeq(task.tags, LAMBDA t : t \notin m.tags)]
      [] m.kind = "provenance" ->
            [task EXCEPT !.metadata.sync_source_id = m.source_id,
                         !.metadata.sync_source_db = m.source_db]
      [] m.kind = "prefix_title" ->
            IF ~StartsWith(task.title, m.prefix)
            THEN [task EXCEPT !.title = m.prefix \o task.title]
            ELSE task

\* The dataclass SyncRule.
SyncRule(name, source_filter, field_mapper, skip_statuses, sync_updates, enabled) ==
    [name |-> name, source_filter |-> source_filter, field_mapper |-> field_mapper,
     skip_statuses |-> skip_statuses, sync_updates |-> sync_updates,
     enabled |-> enabled]

\* The dataclass SyncResult; an error string is the pair of what failed and where.
SyncResult(rule_name) ==
    [rule_name |-> rule_name, created |-> 0, updated |-> 0, skipped |-> 0,
     errors |-> <<>>]

----------------------------------------------------------------------------
(* TaskSyncService, src/services/sync_service.py.                          *)

source_db_name == "team"

\* What a run is made to raise: listing a repository (list) while the rules
\* named in at execute, and per source task the predicate, the field mapper or
\* the destination write.
NoFaults == [list |-> "none", at |-> {}, filter |-> {}, mapper |-> {}, write |-> {}]

\* source_repo.list_tasks() or dest_repo.list_tasks() raises in this rule
ListingRaises(faults, rule) == faults.list # "none" /\ rule.name \in faults.at

source_id_of(task) ==
    IF Truthy(task.external_id) THEN task.external_id ELSE task.id

\* Mutant of get_synced_source_ids: the provenance is compared with the
\* destination's name instead of the source's.
RECURSIVE get_synced_source_ids_dest_name(_)
get_synced_source_ids_dest_name(dest_tasks) ==
    IF dest_tasks = <<>> THEN <<>>
    ELSE LET n == Len(dest_tasks)
             synced == get_synced_source_ids_dest_name(SubSeq(dest_tasks, 1, n - 1))
             task == dest_tasks[n]
         IN IF Truthy(task.metadata.sync_source_id)
               /\ task.metadata.sync_source_db = "personal"
            THEN DictSet(synced, [id |-> task.metadata.sync_source_id, task |-> task])
            ELSE synced

\* _get_synced_source_ids: source id -> destination task, a later task of the
\* listing replacing an earlier one under the same source id.
RECURSIVE get_synced_source_ids(_)
get_synced_source_ids(dest_tasks) ==
    IF dest_tasks = <<>> THEN <<>>
    ELSE LET n == Len(dest_tasks)
             synced == get_synced_source_ids(SubSeq(dest_tasks, 1, n - 1))
             task == dest_tasks[n]
         IN IF Truthy(task.metadata.sync_source_id)
               /\ task.metadata.sync_source_db = source_db_name
            THEN DictSet(synced, [id |-> task.metadata.sync_source_id, task |-> task])
            ELSE synced

\* Mutant of create_synced_task: the provenance is stamped with the source
\* task's local id even when it has an external id.
create_synced_task_local_id(dst, gen, source_task, rule, faults, now) ==
    IF source_task.id \in faults.mapper
    THEN [raised |-> TRUE, dst |-> dst, gen |-> gen]
    ELSE
    LET task_to_create == ApplyMapper(rule.field_mapper, source_task)
        new_metadata == [task_to_create.metadata EXCEPT
                             !.sync_source_id = source_task.id,
                             !.sync_source_db = source_db_name]
        new_task == [task_to_create EXCEPT
                         !.id = GenerateId(gen + 1),
                         !.source = "notion_personal",
                         !.external_id = None,
                         !.metadata = new_metadata,
                         !.created_at = now,
                         !.updated_at = now]
        made == create(dst, new_task)
    IN IF source_task.id \in faults.write \/ made.raised
       THEN [raised |-> TRUE, dst |-> dst, gen |-> gen + 1]
       ELSE [raised |-> FALSE, dst |-> made.repo, gen |-> gen + 1]

\* Mutant of create_synced_task: the mapped task's metadata is laid over the
\* provenance keys instead of under them.
create_synced_task_metadata_last(dst, gen, source_task, rule, faults, now) ==
    IF source_task.id \in faults.mapper
    THEN [raised |-> TRUE, dst |-> dst, gen |-> gen]
    ELSE
    LET task_to_create == ApplyMapper(rule.field_mapper, source_task)
        given == task_to_create.metadata
        new_metadata == [given EXCEPT
                             !.sync_source_id = IF given.sync_source_id # None
                                                THEN given.sync_source_id
                                                ELSE source_id_of(source_task),
                             !.sync_source_db = IF given.sync_source_db # None
                                                THEN given.sync_source_db
                                                ELSE source_db_name]
        new_task == [task_to_create EXCEPT
                         !.id = GenerateId(gen + 1),
                         !.source = "notion_personal",
                         !.external_id = None,
                         !.metadata = new_metadata,
                         !.created_at = now,
                         !.updated_at = now]
        made == create(dst, new_task)
    IN IF source_task.id \in faults.write \/ made.raised
       THEN [raised |-> TRUE, dst |-> dst, gen |-> gen + 1]
       ELSE [raised |-> FALSE, dst |-> made.repo, gen |-> gen + 1]

\* _create_synced_task: the outcome of the call on destination dst with gen
\* identifiers generated so far.
create_synced_task(dst, gen, source_task, rule, faults, now) ==
    IF source_task.id \in faults.mapper
    THEN [raised |-> TRUE, dst |-> dst, gen |-> gen]
    ELSE
    LET task_to_create == ApplyMapper(rule.field_mapper, source_task)
        new_metadata == [task_to_create.metadata EXCEPT
                             !.sync_source_id = source_id_of(source_task),
                             !.sync_source_db = source_db_name]
        new_task == [task_to_create EXCEPT
                         !.id = GenerateId(gen + 1),
                         !.source = "notion_personal",
                         !.external_id = None,
                         !.metadata = new_metadata,
                         !.created_at = now,
                         !.updated_at = now]
        made == create(dst, new_task)
    IN IF source_task.id \in faults.write \/ made.raised
       THEN [raised |-> TRUE, dst |-> dst, gen |-> gen + 1]
       ELSE [raised |-> FALSE, dst |-> made.repo, gen |-> gen + 1]

\* Mutant of update_synced_task: the destination task is replaced by the
\* mapped source task under the destination's identifier.
update_synced_task_whole(dst, gen, source_task, dest_task, rule, faults, now) ==
    IF source_task.id \in faults.mapper
    THEN [raised |-> TRUE, dst |-> dst, gen |-> gen]
    ELSE
    LET mapped_task == ApplyMapper(rule.field_mapper, source_task)
        updated_task == [mapped_task EXCEPT !.id = dest_task.id,
                                            !.updated_at = now]
        put == update(dst, updated_task)
    IN IF source_task.id \in faults.write \/ put.raised
       THEN [raised |-> TRUE, dst |-> dst, gen |-> gen]
       ELSE [raised |-> FALSE, dst |-> put.repo, gen |-> gen]

\* _update_synced_task
update_synced_task(dst, gen, source_task, dest_task, rule, faults, now) ==
    IF source_task.id \in faults.mapper
    THEN [raised |-> TRUE, dst |-> dst, gen |-> gen]
    ELSE
    LET mapped_task == ApplyMapper(rule.field_mapper, source_task)
        updated_task == [dest_task EXCEPT
                             !.title = mapped_task.title,
                             !.description = mapped_task.description,
                             !.status = mapped_task.status,
                             !.priority = mapped_task.priority,
                             !.due_date = mapped_task.due_date,
                             !.tags = mapped_task.tags,
                             !.updated_at = now]
        put == update(dst, updated_task)
    IN IF source_task.id \in faults.write \/ put.raised
       THEN [raised |-> TRUE, dst |-> dst, gen |-> gen]
       ELSE [raised |-> FALSE, dst |-> put.repo, gen |-> gen]

\* Mutant of ShouldSkip: the status is compared with values it never equals.
ShouldSkip_never(rule, task) == FALSE

\* task.status in rule.skip_statuses
ShouldSkip(rule, task) == task.status \in rule.skip_statuses

\* Mutant of SkipByStatus: the task is passed over without being counted.
SkipByStatus_uncounted(acc) == acc

\* result.skipped += 1 for a task skipped by its status
SkipByStatus(acc) == [acc EXCEPT !.result.skipped = acc.result.skipped + 1]

\* Mutant of ProcessTask: a task the predicate rejects is counted as skipped.
ProcessTask_counting_rejected(acc, task, rule, synced_ids, faults, now) ==
    LET result == acc.result
        failed == [acc EXCEPT !.result.errors =
                       Append(result.errors, <<"Error syncing task", task.id>>)]
        source_id == source_id_of(task)
    IN
    IF task.id \in faults.filter THEN failed
    ELSE IF ~ApplyFilter(rule.source_filter, task) THEN SkipByStatus(acc)
    ELSE IF ShouldSkip(rule, task) THEN SkipByStatus(acc)
    ELSE IF source_id \in Keys(synced_ids)
         THEN IF rule.sync_updates
              THEN LET r == update_synced_task(acc.dst, acc.gen, task,
                                DictGet(synced_ids, source_id).task, rule, faults,
                                now)
                   IN IF r.raised THEN [failed EXCEPT !.gen = r.gen]
                      ELSE [acc EXCEPT !.dst = r.dst, !.gen = r.gen,
                                       !.result.updated = result.updated + 1,
                                       !.writes = Append(acc.writes,
                                           [op |-> "update", task |-> task])]
              ELSE [acc EXCEPT !.result.skipped = result.skipped + 1]
    ELSE LET r == create_synced_task(acc.dst, acc.gen, task, rule, faults, now)
         IN IF r.raised THEN [failed EXCEPT !.gen = r.gen]
            ELSE [acc EXCEPT !.dst = r.dst, !.gen = r.gen,
                             !.result.created = result.created + 1,
                             !.writes = Append(acc.writes,
                                 [op |-> "create", task |-> task])]

\* The body of the loop over source_tasks in _execute_rule, for one task:
\* acc carries the destination, the identifier counter, the SyncResult and
\* the destination writes made so far (each with the source task it was for).
ProcessTask(acc, task, rule, synced_ids, faults, now) ==
    LET result == acc.result
        failed == [acc EXCEPT !.result.errors =
                       Append(result.errors, <<"Error syncing task", task.id>>)]
        source_id == source_id_of(task)
    IN
    IF task.id \in faults.filter THEN failed
    ELSE IF ~ApplyFilter(rule.source_filter, task) THEN acc
    ELSE IF ShouldSkip(rule, task) THEN SkipByStatus(acc)
    ELSE IF source_id \in Keys(synced_ids)
         THEN IF rule.sync_updates
              THEN LET r == update_synced_task(acc.dst, acc.gen, task,
                                DictGet(synced_ids, source_id).task, rule, faults,
                                now)
                   IN IF r.raised THEN [failed EXCEPT !.gen = r.gen]
                      ELSE [acc EXCEPT !.dst = r.dst, !.gen = r.gen,
                                       !.result.updated = result.updated + 1,
                                       !.writes = Append(acc.writes,
                                           [op |-> "update", task |-> task])]
              ELSE [acc EXCEPT !.result.skipped = result.skipped + 1]
    ELSE LET r == create_synced_task(acc.dst, acc.gen, task, rule, faults, now)
         IN IF r.raised THEN [failed EXCEPT !.gen = r.gen]
            ELSE [acc EXCEPT !.dst = r.dst, !.gen = r.gen,
                             !.result.created = result.created + 1,
                             !.writes = Append(acc.writes,
                                 [op |-> "create", task |-> task])]

\* Mutant of ProcessTasks: the loop is left at the first task that raises.
RECURSIVE ProcessTasks_abort_on_error(_, _, _, _, _, _)
ProcessTasks_abort_on_error(acc, source_tasks, rule, synced_ids, faults, now) ==
    IF source_tasks = <<>> \/ acc.result.errors # <<>> THEN acc
    ELSE ProcessTasks_abort_on_error(
             ProcessTask(acc, Head(source_tasks), rule, synced_ids, faults, now),
             Tail(source_tasks), rule, synced_ids, faults, now)

\* The loop over source_tasks in _execute_rule.
RECURSIVE ProcessTasks(_, _, _, _, _, _)
ProcessTasks(acc, source_tasks, rule, synced_ids, faults, now) ==
    IF source_tasks = <<>> THEN acc
    ELSE ProcessTasks(ProcessTask(acc, Head(source_tasks), rule, synced_ids, faults,
                                  now),
                      Tail(source_tasks), rule, synced_ids, faults, now)

\* The outer try block of _execute_rule: the two listings, then the loop.
\* raised is whether an exception leaves the block.
ExecuteRuleBody(rule, src, dst, gen, faults, now) ==
    LET start == [dst |-> dst, gen |-> gen, result |-> SyncResult(rule.name),
                  writes |-> <<>>, raised |-> FALSE]
    IN IF ListingRaises(faults, rule)
       THEN [start EXCEPT !.raised = TRUE]
       ELSE ProcessTasks(start, list_tasks(src), rule,
                         get_synced_source_ids(list_tasks(dst)), faults, now)

\* Mutant of execute_rule: no except clause around the listings.
execute_rule_unguarded(rule, src, dst, gen, faults, now) ==
    ExecuteRuleBody(rule, src, dst, gen, faults, now)

\* _execute_rule: the outer try block and its except clause.  raised is
\* whether an exception leaves the method.
execute_rule(rule, src, dst, gen, faults, now) ==
    LET body == ExecuteRuleBody(rule, src, dst, gen, faults, now)
    IN IF body.raised
       THEN [body EXCEPT !.raised = FALSE,
                         !.result.errors = Append(body.result.errors,
                             <<"Error executing rule", rule.name>>)]
       ELSE body

\* Mutant of RunRules: the batch is left after a rule whose result carries an
\* error.
RECURSIVE RunRules_abort_batch(_, _, _, _)
RunRules_abort_batch(acc, rules_to_run, faults, now) ==
    IF \/ rules_to_run = <<>>
       \/ acc.raised
       \/ acc.runs # <<>> /\ acc.runs[Len(acc.runs)].result.errors # <<>>
    THEN acc
    ELSE LET rule == Head(rules_to_run)
         IN IF ~rule.enabled
            THEN RunRules_abort_batch(acc, Tail(rules_to_run), faults, now)
            ELSE LET r == execute_rule(rule, acc.src, acc.dst, acc.gen, faults, now)
                 IN RunRules_abort_batch(
                        [acc EXCEPT !.dst = r.dst, !.gen = r.gen,
                                    !.raised = r.raised,
                                    !.runs = Append(acc.runs,
                                        [rule |-> rule, result |-> r.result,
                                         writes |-> r.writes,
                                         dst |-> acc.dst, gen |-> acc.gen])],
                        Tail(rules_to_run), faults, now)

\* sync: the loop over rules_to_run.  runs pairs every executed rule with the
\* destination and identifier counter it started from, its SyncResult and its
\* writes; the results of runs are the returned list.
RECURSIVE RunRules(_, _, _, _)
RunRules(acc, rules_to_run, faults, now) ==
    IF rules_to_run = <<>> \/ acc.raised THEN acc
    ELSE LET rule == Head(rules_to_run)
         IN IF ~rule.enabled THEN RunRules(acc, Tail(rules_to_run), faults, now)
            ELSE LET r == execute_rule(rule, acc.src, acc.dst, acc.gen, faults, now)
                 IN RunRules([acc EXCEPT !.dst = r.dst, !.gen = r.gen,
                                         !.raised = r.raised,
                                         !.runs = Append(acc.runs,
                                             [rule |-> rule, result |-> r.result,
                                              writes |-> r.writes,
                                              dst |-> acc.dst, gen |-> acc.gen])],
                             Tail(rules_to_run), faults, now)

\* Mutant of sync: only the first rule of the given name is run.
sync_first_match(rule_name, rs, src, dst, gen, faults, now) ==
    LET matching == SelectSeq(rs, LAMBDA r : r.name = rule_name)
        rules_to_run == IF Truthy(rule_name)
                        THEN SubSeq(matching, 1, IF matching = <<>> THEN 0 ELSE 1)
                        ELSE SubSeq(rs, 1, IF rs = <<>> THEN 0 ELSE 1)
    IN RunRules([src |-> src, dst |-> dst, gen |-> gen, raised |-> FALSE,
                 runs |-> <<>>], rules_to_run, faults, now)

\* sync(rule_name): `if rule_name:` takes None and the empty string as no name.
sync(rule_name, rs, src, dst, gen, faults, now) ==
    LET rules_to_run == IF Truthy(rule_name)
                        THEN SelectSeq(rs, LAMBDA r : r.name = rule_name)
                        ELSE rs
    IN RunRules([src |-> src, dst |-> dst, gen |-> gen, raised |-> FALSE,
                 runs |-> <<>>], rules_to_run, faults, now)

----------------------------------------------------------------------------
(* The sync engine at work: the team repository is the source, the         *)
(* personal repository the destination (src/cli/main.py, task_sync).       *)

\* Tasks the team repository is given: a and b can carry the same external
\* id, a changes title and status, b changes status and tags.
SourceTasks ==
    { Task("a", <<"A">>, "todo", <<"review">>, "x"),
      Task("a", <<"A2">>, "todo", <<"review">>, "x"),
      Task("a", <<"A">>, "done", <<"review">>, "x"),
      Task("b", <<"B">>, "todo", <<"bug">>, "x"),
      Task("b", <<"B">>, "done", <<"bug">>, "x"),
      Task("b", <<"B">>, "todo", <<"bug", "review">>, None) }

\* Rules add_rule is given.
RulePool ==
    { SyncRule("r1", combine_filters(<<tag_filter("review"), tag_filter("bug")>>, "or"),
               NoMapper, {"done"}, TRUE, TRUE),
      SyncRule("r2", tag_filter("review"), prefix_title_mapper(<<"P:">>),
               {"done"}, FALSE, TRUE) }

RuleNames == {None} \cup {r.name : r \in RulePool}

Idle == [op |-> "none"]

\* The readings of datetime.now() a sync() call can get; the tasks of the
\* pools were stamped at 0.
SyncTimes == {1}

NoHistory == [synced |-> FALSE, arg |-> None, quiet |-> FALSE, source_quiet |-> FALSE]

InitSync ==
    /\ team = <<>>
    /\ personal = <<>>
    /\ cache = <<>>
    /\ rules = <<>>
    /\ nextId = 0
    /\ senders = <<>>
    /\ inflight = <<>>
    /\ out = Idle
    /\ hist = NoHistory

\* Something other than sync() changes the source or the rules (source_too),
\* or the destination only.
Disturb(source_too) ==
    hist' = IF source_too \/ ~hist.source_quiet THEN NoHistory
            ELSE [hist EXCEPT !.quiet = FALSE]

\* InMemoryTaskRepository.create on the team repository
TeamCreate(t) ==
    /\ ~create(team, t).raised
    /\ team' = create(team, t).repo
    /\ out' = Idle
    /\ Disturb(TRUE)
    /\ UNCHANGED <<personal, cache, rules, nextId, senders, inflight>>

\* InMemoryTaskRepository.update on the team repository
TeamUpdate(t) ==
    /\ ~update(team, t).raised
    /\ team' = update(team, t).repo
    /\ team' # team
    /\ out' = Idle
    /\ Disturb(TRUE)
    /\ UNCHANGED <<personal, cache, rules, nextId, senders, inflight>>

\* InMemoryTaskRepository.delete on the team repository
TeamDelete(id) ==
    /\ delete(team, id).value
    /\ team' = delete(team, id).repo
    /\ out' = Idle
    /\ Disturb(TRUE)
    /\ UNCHANGED <<personal, cache, rules, nextId, senders, inflight>>

\* InMemoryTaskRepository.delete on the personal repository
PersonalDelete(id) ==
    /\ delete(personal, id).value
    /\ personal' = delete(personal, id).repo
    /\ out' = Idle
    /\ Disturb(FALSE)
    /\ UNCHANGED <<team, cache, rules, nextId, senders, inflight>>

\* TaskSyncService.add_rule
AddRule(rule) ==
    /\ rule \notin Range(rules)
    /\ rules' = Append(rules, rule)
    /\ out' = Idle
    /\ Disturb(TRUE)
    /\ UNCHANGED <<team, personal, cache, nextId, senders, inflight>>

\* TaskSyncService.remove_rule: the first rule of that name goes
RemoveRule(rule_name) ==
    /\ \E i \in DOMAIN rules : rules[i].name = rule_name
    /\ LET i == CHOOSE i \in DOMAIN rules :
                    /\ rules[i].name = rule_name
                    /\ \A j \in 1..(i - 1) : rules[j].name # rule_name
       IN rules' = SubSeq(rules, 1, i - 1) \o SubSeq(rules, i + 1, Len(rules))
    /\ out' = Idle
    /\ Disturb(TRUE)
    /\ UNCHANGED <<team, personal, cache, nextId, senders, inflight>>

\* TaskSyncService.sync(rule_name), with the faults the run meets and the
\* reading of the clock it gets
SyncAt(rule_name, faults, now) ==
    \E r \in {sync(rule_name, rules, team, personal, nextId, faults, now)} :
       /\ r.gen <= MaxGen
       /\ personal' = r.dst
       /\ nextId' = r.gen
       /\ out' = [op |-> "sync", rule_name |-> rule_name, raised |-> r.raised,
                  runs |-> r.runs, faults |-> faults, now |-> now,
                  rerun |-> hist.synced /\ hist.quiet /\ hist.arg = rule_name,
                  source_rerun |-> hist.synced /\ hist.source_quiet
                                   /\ hist.arg = rule_name]
       /\ hist' = [synced |-> TRUE, arg |-> rule_name, quiet |-> TRUE,
                   source_quiet |-> TRUE]
       /\ UNCHANGED <<team, cache, rules, senders, inflight>>

SyncWith(rule_name, faults) == \E now \in SyncTimes : SyncAt(rule_name, faults, now)

Sync(rule_name) == SyncWith(rule_name, NoFaults)

\* The faults a run is made to meet: none, a listing, or one kind of
\* per-task call
Faults ==
    {NoFaults}
    \cup {[NoFaults EXCEPT !.list = l, !.at = names] :
              l \in {"source", "dest"}, names \in (SUBSET {"r1", "r2"}) \ {{}}}
    \cup {[NoFaults EXCEPT !.filter = {id}] : id \in {"a", "b"}}
    \cup {[NoFaults EXCEPT !.mapper = {id}] : id \in {"a", "b"}}
    \cup {[NoFaults EXCEPT !.write = ids] : ids \in {{"a"}, {"b"}, {"a", "b"}}}

SyncFaulty(rule_name) == \E faults \in Faults : SyncWith(rule_name, faults)

NextSync ==
    \/ \E t \in SourceTasks : TeamCreate(t)
    \/ \E t \in SourceTasks : TeamUpdate(t)
    \/ \E id \in Keys(team) : TeamDelete(id)
    \/ \E id \in Keys(personal) : PersonalDelete(id)
    \/ \E rule \in RulePool : AddRule(rule)
    \/ \E rule_name \in RuleNames \ {None} : RemoveRule(rule_name)
    \/ \E rule_name \in RuleNames : Sync(rule_name)

SpecSync == InitSync /\ [][NextSync]_vars

\* The same engine when calls raise.
FaultTasks ==
    { t \in SourceTasks : t.title # <<"A2">> /\ Truthy(t.external_id) }

NextFault ==
    \/ \E t \in FaultTasks : TeamCreate(t)
    \/ \E t \in FaultTasks : TeamUpdate(t)
    \/ \E rule \in RulePool : AddRule(rule)
    \/ \E rule_name \in RuleNames : SyncFaulty(rule_name)

SpecFault == InitSync /\ [][NextFault]_vars

\* Batches of rules, one of them disabled, when listing a repository raises.
BatchTasks == { t \in FaultTasks : t.status = "todo" }

BatchRules ==
    RulePool \cup {SyncRule("r3", tag_filter("review"), NoMapper, {}, TRUE, FALSE)}

ListingFaults == { f \in Faults : f.filter = {} /\ f.mapper = {} /\ f.write = {} }

NextBatch ==
    \/ \E t \in BatchTasks : TeamCreate(t)
    \/ \E rule \in BatchRules : AddRule(rule)
    \/ \E rule_name \in RuleNames, faults \in ListingFaults :
           SyncWith(rule_name, faults)

SpecBatch == InitSync /\ [][NextBatch]_vars

\* Creation of destination tasks: source tasks with an external id, with none
\* and with an empty one, one of them carrying provenance keys of its own, and
\* rules whose mapper leaves the task, changes its title or supplies
\* provenance keys.
CreateTasks ==
    { Task("a", <<"A">>, "todo", <<"review">>, "x"),
      [Task("b", <<"B">>, "todo", <<"review">>, None) EXCEPT
           !.metadata.sync_source_id = "z", !.metadata.sync_source_db = "other"],
      Task("c", <<"C">>, "todo", <<"review">>, "") }

CreateRules ==
    { SyncRule("r1", tag_filter("review"), NoMapper, {"done"}, TRUE, TRUE),
      SyncRule("r2", tag_filter("review"), provenance_mapper("q", "personal"),
               {}, FALSE, TRUE),
      SyncRule("r3", tag_filter("review"), prefix_title_mapper(<<"P:">>),
               {}, FALSE, TRUE) }

NextCreate ==
    \/ \E t \in CreateTasks : TeamCreate(t)
    \/ \E id \in Keys(personal) : PersonalDelete(id)
    \/ \E rule \in CreateRules : AddRule(rule)
    \/ \E rule_name \in {None} \cup {r.name : r \in CreateRules} : Sync(rule_name)

SpecCreate == InitSync /\ [][NextCreate]_vars

\* Updates of destination tasks: source tasks that change every field the
\* update copies and the assignee, two of them under one external id, rules
\* that update with and without a mapper, and runs at two instants.
UpdateTasks ==
    { Task("a", <<"A">>, "todo", <<"review">>, "x"),
      [Task("a", <<"A2">>, "in_progress", <<"review", "bug">>, "x") EXCEPT
           !.description = "text", !.priority = "high",
           !.due_date = DateTime(MaxTime, FALSE), !.assignee = "bob",
           !.updated_at = 1],
      Task("b", <<"B">>, "todo", <<"review">>, "x") }

UpdateRules ==
    { SyncRule("r1", tag_filter("review"), prefix_title_mapper(<<"P:">>),
               {"done"}, TRUE, TRUE),
      SyncRule("r2", tag_filter("review"), NoMapper, {"done"}, TRUE, TRUE) }

UpdateTimes == {1, MaxTime}

NextUpdate ==
    \/ \E t \in UpdateTasks : TeamCreate(t)
    \/ \E t \in UpdateTasks : TeamUpdate(t)
    \/ \E rule \in UpdateRules : AddRule(rule)
    \/ \E rule_name \in RuleNames, now \in UpdateTimes :
           SyncAt(rule_name, NoFaults, now)

SpecUpdate == InitSync /\ [][NextUpdate]_vars

\* The choice of the rules a sync() call runs: rules sharing a name, enabled
\* and disabled, and calls with no name, an empty name, a registered name and
\* a name no rule has.
SelectRules ==
    RulePool \cup {SyncRule("r1", tag_filter("bug"), NoMapper, {}, FALSE, TRUE),
                   SyncRule("r1", tag_filter("review"), NoMapper, {}, TRUE, FALSE),
                   SyncRule("r2", tag_filter("bug"), NoMapper, {}, TRUE, FALSE)}

SelectNames == {None, "", "r1", "r2", "r9"}

NextSelect ==
    \/ \E t \in BatchTasks : TeamCreate(t)
    \/ \E rule \in SelectRules : AddRule(rule)
    \/ \E rule_name \in SelectNames \ {None, ""} : RemoveRule(rule_name)
    \/ \E rule_name \in SelectNames : Sync(rule_name)

SpecSelect == InitSync /\ [][NextSelect]_vars

----------------------------------------------------------------------------
(* TaskService, src/services/task_service.py.  Every method yields the     *)
(* stores it leaves, the value it returns, whether it raises, and the      *)
(* repository calls it makes, in order.                                    *)

Outcome(t, p, c, value, raised, calls) ==
    [team |-> t, personal |-> p, cache |-> c, value |-> value,
     raised |-> raised, calls |-> calls]

\* Mutant of get_task: a task found in the personal repository is returned
\* without being cached.
get_task_personal_uncached(t, p, c, task_id) ==
    LET cached == cache_get(c, task_id)
        from_team == get_by_id(t, task_id)
        from_personal == get_by_id(p, task_id)
    IN IF cached # NoTask
       THEN Outcome(t, p, c, cached, FALSE, <<>>)
       ELSE IF from_team # NoTask
       THEN Outcome(t, p, cache_set(c, from_team), from_team, FALSE,
                    <<"team.get_by_id">>)
       ELSE Outcome(t, p, c, from_personal, FALSE,
                    <<"team.get_by_id", "personal.get_by_id">>)

get_task(t, p, c, task_id) ==
    LET cached == cache_get(c, task_id)
        from_team == get_by_id(t, task_id)
        from_personal == get_by_id(p, task_id)
    IN IF cached # NoTask
       THEN Outcome(t, p, c, cached, FALSE, <<>>)
       ELSE IF from_team # NoTask
       THEN Outcome(t, p, cache_set(c, from_team), from_team, FALSE,
                    <<"team.get_by_id">>)
       ELSE IF from_personal # NoTask
       THEN Outcome(t, p, cache_set(c, from_personal), from_personal, FALSE,
                    <<"team.get_by_id", "personal.get_by_id">>)
       ELSE Outcome(t, p, c, NoTask, FALSE,
                    <<"team.get_by_id", "personal.get_by_id">>)

\* Mutant of create_task: the created task is not mirrored into the cache.
create_task_uncached(t, p, c, task, is_personal) ==
    LET made == create(IF is_personal THEN p ELSE t, task)
        calls == <<IF is_personal THEN "personal.create" ELSE "team.create">>
    IN IF made.raised
       THEN Outcome(t, p, c, NoTask, TRUE, calls)
       ELSE Outcome(IF is_personal THEN t ELSE made.repo,
                    IF is_personal THEN made.repo ELSE p,
                    c, made.value, FALSE, calls)

create_task(t, p, c, task, is_personal) ==
    LET made == create(IF is_personal THEN p ELSE t, task)
        calls == <<IF is_personal THEN "personal.create" ELSE "team.create">>
    IN IF made.raised
       THEN Outcome(t, p, c, NoTask, TRUE, calls)
       ELSE Outcome(IF is_personal THEN t ELSE made.repo,
                    IF is_personal THEN made.repo ELSE p,
                    cache_set(c, made.value), made.value, FALSE, calls)

\* Mutant of update_task: the cache is written before the repositories are
\* probed.
update_task_cache_first(t, p, c, task) ==
    IF exists(t, task.id)
    THEN LET put == update(t, task)
         IN Outcome(put.repo, p, cache_set(c, put.value), put.value, FALSE,
                    <<"team.exists", "team.update">>)
    ELSE IF exists(p, task.id)
    THEN LET put == update(p, task)
         IN Outcome(t, put.repo, cache_set(c, put.value), put.value, FALSE,
                    <<"team.exists", "personal.exists", "personal.update">>)
    ELSE Outcome(t, p, cache_set(c, task), NoTask, TRUE,
                 <<"team.exists", "personal.exists">>)

update_task(t, p, c, task) ==
    IF exists(t, task.id)
    THEN LET put == update(t, task)
         IN Outcome(put.repo, p, cache_set(c, put.value), put.value, FALSE,
                    <<"team.exists", "team.update">>)
    ELSE IF exists(p, task.id)
    THEN LET put == update(p, task)
         IN Outcome(t, put.repo, cache_set(c, put.value), put.value, FALSE,
                    <<"team.exists", "personal.exists", "personal.update">>)
    ELSE Outcome(t, p, c, NoTask, TRUE, <<"team.exists", "personal.exists">>)

\* TaskService.update_task_status when datetime.now() reads now
update_task_status(t, p, c, task_id, status, now) ==
    LET got == get_task(t, p, c, task_id)
    IN IF got.value = NoTask
       THEN Outcome(got.team, got.personal, got.cache, NoTask, TRUE, got.calls)
       ELSE LET updated_task == [got.value EXCEPT !.status = status,
                                                   !.updated_at = now]
                put == update_task(got.team, got.personal, got.cache, updated_task)
            IN Outcome(put.team, put.personal, put.cache, put.value, put.raised,
                       got.calls \o put.calls)

\* TaskStatus(status): the member whose value is the string, else ValueError
ParseTaskStatus(status) ==
    IF status \in TaskStatus THEN [raised |-> FALSE, value |-> status]
    ELSE [raised |-> TRUE, value |-> None]

\* Mutant of api_update_task_status: the task is looked up before the status
\* string is parsed.
api_update_task_status_lookup_first(t, p, c, task_id, status, now) ==
    LET task_status == ParseTaskStatus(status)
        found == get_task(t, p, c, task_id)
    IN IF found.value = NoTask
       THEN Outcome(t, p, c, [code |-> 404], TRUE, found.calls)
       ELSE IF task_status.raised
       THEN Outcome(t, p, c, [code |-> 400], TRUE, <<>>)
       ELSE LET r == update_task_status(t, p, c, task_id, task_status.value, now)
            IN IF r.raised
               THEN Outcome(r.team, r.personal, r.cache, [code |-> 404], TRUE, r.calls)
               ELSE Outcome(r.team, r.personal, r.cache,
                            [code |-> 200, task |-> r.value], FALSE, r.calls)

\* The route PATCH /{task_id}/status of src/api/routes/tasks.py: the value is
\* the HTTP status code, with the task of the response when it is 200.
api_update_task_status(t, p, c, task_id, status, now) ==
    LET task_status == ParseTaskStatus(status)
    IN IF task_status.raised
       THEN Outcome(t, p, c, [code |-> 400], TRUE, <<>>)
       ELSE LET r == update_task_status(t, p, c, task_id, task_status.value, now)
            IN IF r.raised
               THEN Outcome(r.team, r.personal, r.cache, [code |-> 404], TRUE, r.calls)
               ELSE Outcome(r.team, r.personal, r.cache,
                            [code |-> 200, task |-> r.value], FALSE, r.calls)

\* Mutant of delete_task: a deletion from the personal repository leaves the
\* cache entry.
delete_task_personal_cached(t, p, c, task_id) ==
    LET from_team == delete(t, task_id)
        from_personal == delete(p, task_id)
    IN IF from_team.value
       THEN Outcome(from_team.repo, p, invalidate(c, task_id), TRUE, FALSE,
                    <<"team.delete">>)
       ELSE IF from_personal.value
       THEN Outcome(t, from_personal.repo, c, TRUE, FALSE,
                    <<"team.delete", "personal.delete">>)
       ELSE Outcome(t, p, c, FALSE, FALSE, <<"team.delete", "personal.delete">>)

delete_task(t, p, c, task_id) ==
    LET from_team == delete(t, task_id)
        from_personal == delete(p, task_id)
    IN IF from_team.value
       THEN Outcome(from_team.repo, p, invalidate(c, task_id), TRUE, FALSE,
                    <<"team.delete">>)
       ELSE IF from_personal.value
       THEN Outcome(t, from_personal.repo, invalidate(c, task_id), TRUE, FALSE,
                    <<"team.delete", "personal.delete">>)
       ELSE Outcome(t, p, c, FALSE, FALSE, <<"team.delete", "personal.delete">>)

\* Mutant of sync_from_team: the cache is emptied before it is loaded.
sync_from_team_replacing(t, p, c) ==
    LET tasks == list_tasks(t)
    IN Outcome(t, p, set_many(<<>>, tasks), Len(tasks), FALSE, <<"team.list_tasks">>)

sync_from_team(t, p, c) ==
    LET tasks == list_tasks(t)
    IN Outcome(t, p, set_many(c, tasks), Len(tasks), FALSE, <<"team.list_tasks">>)

sync_from_personal(t, p, c) ==
    LET tasks == list_tasks(p)
    IN Outcome(t, p, set_many(c, tasks), Len(tasks), FALSE,
               <<"personal.list_tasks">>)

sync_all(t, p, c) ==
    LET first == sync_from_team(t, p, c)
        second == sync_from_personal(first.team, first.personal, first.cache)
    IN Outcome(second.team, second.personal, second.cache,
               [team_tasks |-> first.value, personal_tasks |-> second.value],
               FALSE, first.calls \o second.calls)

\* A list comprehension over tasks whose condition compares x.due_date with
\* bound (x.due_date < bound when before, x.due_date > bound otherwise), for
\* the tasks that have a due date.
DueFiltered(tasks, bound, before) ==
    LET Cmp(x) == IF before THEN DateLess(x.due_date, bound)
                  ELSE DateLess(bound, x.due_date)
    IN [raised |-> \E i \in DOMAIN tasks :
                       tasks[i].due_date.set /\ Cmp(tasks[i]).raised,
        value |-> SelectSeq(tasks, LAMBDA x : x.due_date.set /\ Cmp(x).value)]

\* TaskService.list_tasks
TaskService_list_tasks(t, p, c, filter) ==
    LET all_tasks == get_all(c)
    IN IF filter = NoFilter THEN Outcome(t, p, c, all_tasks, FALSE, <<>>)
       ELSE
       LET r0 == all_tasks
           r1 == IF filter.status # {}
                 THEN SelectSeq(r0, LAMBDA x : x.status \in filter.status) ELSE r0
           r2 == IF filter.priority # {}
                 THEN SelectSeq(r1, LAMBDA x : x.priority \in filter.priority) ELSE r1
           r3 == IF filter.source # {}
                 THEN SelectSeq(r2, LAMBDA x : x.source \in filter.source) ELSE r2
           r4 == IF Truthy(filter.assignee)
                 THEN SelectSeq(r3, LAMBDA x : x.assignee = filter.assignee) ELSE r3
           r5 == IF filter.due_before.set
                 THEN DueFiltered(r4, filter.due_before, TRUE)
                 ELSE [raised |-> FALSE, value |-> r4]
           r6 == IF r5.raised THEN r5
                 ELSE IF filter.due_after.set
                 THEN DueFiltered(r5.value, filter.due_after, FALSE)
                 ELSE [raised |-> FALSE, value |-> r5.value]
           r7 == IF filter.tags # <<>>
                 THEN SelectSeq(r6.value, LAMBDA x :
                          \E i \in DOMAIN filter.tags : filter.tags[i] \in Range(x.tags))
                 ELSE r6.value
       IN IF r6.raised THEN Outcome(t, p, c, <<>>, TRUE, <<>>)
          ELSE Outcome(t, p, c,
                       PySlice(r7, filter.offset, filter.offset + filter.limit),
                       FALSE, <<>>)

\* TaskService.get_overdue_tasks when datetime.now() reads now
get_overdue_tasks(t, p, c, now) ==
    LET all_tasks == get_all(c)
    IN IF \E i \in DOMAIN all_tasks : is_overdue(all_tasks[i], now).raised
       THEN Outcome(t, p, c, <<>>, TRUE, <<>>)
       ELSE Outcome(t, p, c,
                    SelectSeq(all_tasks, LAMBDA x : is_overdue(x, now).value),
                    FALSE, <<>>)

----------------------------------------------------------------------------
(* The task service at work over two repositories that already hold tasks. *)

\* Tasks the callers pass, and the repositories hold at the start.
ServiceTasks ==
    { Task("a", <<"A">>, "todo", <<>>, None),
      Task("a", <<"A2">>, "todo", <<>>, None),
      Task("b", <<"B">>, "todo", <<>>, None) }

ServiceIds == {t.id : t \in ServiceTasks}

\* The contents a repository can have: tasks of the pool under distinct ids.
Contents ==
    {<<>>} \cup {<<x>> : x \in ServiceTasks}
    \cup {<<pair[1], pair[2]>> :
              pair \in {q \in ServiceTasks \X ServiceTasks : q[1].id # q[2].id}}

InitService ==
    /\ team \in Contents
    /\ personal \in Contents
    /\ cache = <<>>
    /\ rules = <<>>
    /\ nextId = 0
    /\ senders = <<>>
    /\ inflight = <<>>
    /\ out = Idle
    /\ hist = NoHistory

\* The service call leaves the stores as r says; out keeps what it was called
\* with, the stores it found, and what it returned.
Served(op, arg, r) ==
    /\ team' = r.team
    /\ personal' = r.personal
    /\ cache' = r.cache
    /\ out' = [op |-> op, arg |-> arg, value |-> r.value, raised |-> r.raised,
               calls |-> r.calls]
    /\ UNCHANGED <<rules, nextId, senders, hist, inflight>>

GetTask(task_id) ==
    Served("get_task", [id |-> task_id], get_task(team, personal, cache, task_id))

CreateTask(task, is_personal) ==
    Served("create_task", [task |-> task, personal |-> is_personal],
           create_task(team, personal, cache, task, is_personal))

UpdateTask(task) ==
    Served("update_task", [task |-> task], update_task(team, personal, cache, task))

DeleteTask(task_id) ==
    Served("delete_task", [id |-> task_id],
           delete_task(team, personal, cache, task_id))

NextService ==
    \/ \E task_id \in ServiceIds : GetTask(task_id)
    \/ \E task \in ServiceTasks, is_personal \in BOOLEAN : CreateTask(task, is_personal)
    \/ \E task \in ServiceTasks : UpdateTask(task)
    \/ \E task_id \in ServiceIds : DeleteTask(task_id)
    \/ \E id \in Keys(team) : TeamDelete(id)
    \/ \E id \in Keys(personal) : PersonalDelete(id)

SpecService == InitService /\ [][NextService]_vars

\* The same service with its bulk loads of the cache.
SyncFromTeam ==
    Served("sync_from_team", [id |-> None], sync_from_team(team, personal, cache))

SyncFromPersonal ==
    Served("sync_from_personal", [id |-> None],
           sync_from_personal(team, personal, cache))

SyncAll ==
    Served("sync_all", [id |-> None], sync_all(team, personal, cache))

NextCache ==
    \/ \E task_id \in ServiceIds : GetTask(task_id)
    \/ \E task \in ServiceTasks, is_personal \in BOOLEAN : CreateTask(task, is_personal)
    \/ \E task \in ServiceTasks : UpdateTask(task)
    \/ \E task_id \in ServiceIds : DeleteTask(task_id)
    \/ \E id \in Keys(team) : TeamDelete(id)
    \/ \E id \in Keys(personal) : PersonalDelete(id)
    \/ SyncFromTeam
    \/ SyncFromPersonal
    \/ SyncAll

SpecCache == InitService /\ [][NextCache]_vars

\* The repositories changed through the one TaskService only, one call at a
\* time.
OwnedTimes == {1}

UpdateTaskStatus(task_id, status, now) ==
    Served("update_task_status", [id |-> task_id, status |-> status, now |-> now],
           update_task_status(team, personal, cache, task_id, status, now))

NextOwned ==
    \/ \E task_id \in ServiceIds : GetTask(task_id)
    \/ \E task \in ServiceTasks, is_personal \in BOOLEAN : CreateTask(task, is_personal)
    \/ \E task \in ServiceTasks : UpdateTask(task)
    \/ \E task_id \in ServiceIds, now \in OwnedTimes :
           UpdateTaskStatus(task_id, "done", now)
    \/ \E task_id \in ServiceIds : DeleteTask(task_id)
    \/ SyncFromTeam
    \/ SyncFromPersonal
    \/ SyncAll

SpecOwned == InitService /\ [][NextOwned]_vars

\* The task service beside the sync engine: sync() writes the personal
\* repository without going through the service's cache.
StaleTasks ==
    { Task("a", <<"A">>, "todo", <<"review">>, "x"),
      Task("a", <<"A2">>, "todo", <<"review">>, "x"),
      Task("b", <<"B">>, "todo", <<"review">>, None) }

StaleRules == { SyncRule("r1", tag_filter("review"), NoMapper, {"done"}, TRUE, TRUE) }

StaleTimes == {MaxTime}

NextStale ==
    \/ \E t \in StaleTasks : TeamCreate(t)
    \/ \E t \in StaleTasks : TeamUpdate(t)
    \/ \E rule \in StaleRules : AddRule(rule)
    \/ Sync(None)
    \/ \E task_id \in Keys(personal) : GetTask(task_id)
    \/ \E task_id \in Keys(personal), now \in StaleTimes :
           UpdateTaskStatus(task_id, "done", now)

SpecStale == InitSync /\ [][NextStale]_vars

----------------------------------------------------------------------------
(* Concurrent callers of the task service.  A coroutine runs from one      *)
(* await to the next without interruption; at an await of a repository or  *)
(* cache call another coroutine can run.  A step below is one awaited call *)
(* together with the code up to the next await.                            *)

MaxCalls == 2      \* coroutines started

RaceId == "a"

\* The task both callers work on
RaceTask == Task(RaceId, <<"A">>, "todo", <<>>, None)

\* A TaskUpdateRequest, with the clock reading of its handler: a field the
\* request leaves out is NoTitle or None
NoTitle == <<>>

RaceChanges ==
    { [title |-> <<"A2">>, status |-> None, now |-> 1],
      [title |-> NoTitle, status |-> "done", now |-> 1] }

NoChange == [title |-> NoTitle, status |-> None, now |-> 0]

\* replace(task, **update_kwargs) of the route update_task
Replaced(task, change) ==
    [task EXCEPT !.title = IF change.title # NoTitle THEN change.title ELSE @,
                 !.status = IF change.status # None THEN change.status ELSE @,
                 !.updated_at = change.now]

\* A coroutine: the await it is suspended at (pc), the change it was asked
\* for, the task it read (read) and the task it writes (task).
Coroutine(op, pc, change, task) ==
    [op |-> op, pc |-> pc, change |-> change, read |-> NoTask, task |-> task,
     raised |-> FALSE]

InitRace ==
    /\ \/ team = <<RaceTask>> /\ personal = <<>>
       \/ team = <<>> /\ personal = <<RaceTask>>
    /\ cache \in {<<>>, <<RaceTask>>}
    /\ rules = <<>>
    /\ nextId = 0
    /\ senders = <<>>
    /\ out = Idle
    /\ hist = NoHistory
    /\ inflight = <<>>

\* The route PATCH /{task_id} is entered: service.get_task is awaited
StartPatch(change) ==
    /\ Len(inflight) < MaxCalls
    /\ inflight' = Append(inflight, Coroutine("patch", "cache.get", change, NoTask))
    /\ UNCHANGED <<team, personal, cache, rules, nextId, senders, out, hist>>

\* TaskService.update_task(task) is called
StartUpdate(task) ==
    /\ Len(inflight) < MaxCalls
    /\ inflight' = Append(inflight, Coroutine("update_task", "team.exists",
                                              NoChange, task))
    /\ UNCHANGED <<team, personal, cache, rules, nextId, senders, out, hist>>

\* Coroutine i goes on to the await at pc
Goes(i, pc) == inflight' = [inflight EXCEPT ![i].pc = pc]

\* Coroutine i has read task: get_task returns it, the route builds the
\* replacement and awaits service.update_task
Reads(i, task, pc) ==
    inflight' = [inflight EXCEPT ![i].pc = pc, ![i].read = task,
                                 ![i].task = Replaced(task, inflight[i].change)]

\* get_task: cached = await self._cache.get(task_id.value)
CacheGet(i) ==
    /\ inflight[i].pc = "cache.get"
    /\ LET cached == cache_get(cache, RaceId)
       IN IF cached # NoTask THEN Reads(i, cached, "team.exists")
          ELSE Goes(i, "team.get_by_id")
    /\ UNCHANGED <<team, personal, cache, rules, nextId, senders, out, hist>>

\* get_task: task = await self._team_repo.get_by_id(task_id)
TeamGet(i) ==
    /\ inflight[i].pc = "team.get_by_id"
    /\ LET task == get_by_id(team, RaceId)
       IN IF task # NoTask
          THEN inflight' = [inflight EXCEPT ![i].pc = "cache.set loaded",
                                            ![i].read = task]
          ELSE Goes(i, "personal.get_by_id")
    /\ UNCHANGED <<team, personal, cache, rules, nextId, senders, out, hist>>

\* get_task: task = await self._personal_repo.get_by_id(task_id); the route
\* answers 404 when there is none
PersonalGet(i) ==
    /\ inflight[i].pc = "personal.get_by_id"
    /\ LET task == get_by_id(personal, RaceId)
       IN IF task # NoTask
          THEN inflight' = [inflight EXCEPT ![i].pc = "cache.set loaded",
                                            ![i].read = task]
          ELSE inflight' = [inflight EXCEPT ![i].pc = "done", ![i].raised = TRUE]
    /\ UNCHANGED <<team, personal, cache, rules, nextId, senders, out, hist>>

\* get_task: await self._cache.set(task_id.value, task)
CacheSetLoaded(i) ==
    /\ inflight[i].pc = "cache.set loaded"
    /\ cache' = cache_set(cache, inflight[i].read)
    /\ Reads(i, inflight[i].read, "team.exists")
    /\ UNCHANGED <<team, personal, rules, nextId, senders, out, hist>>

\* update_task: await self._team_repo.exists(task.id)
TeamExists(i) ==
    /\ inflight[i].pc = "team.exists"
    /\ IF exists(team, inflight[i].task.id) THEN Goes(i, "team.update")
       ELSE Goes(i, "personal.exists")
    /\ UNCHANGED <<team, personal, cache, rules, nextId, senders, out, hist>>

\* update_task: updated = await self._team_repo.update(task)
TeamUpdateAwaited(i) ==
    /\ inflight[i].pc = "team.update"
    /\ LET put == update(team, inflight[i].task)
       IN /\ team' = put.repo
          /\ IF put.raised
             THEN inflight' = [inflight EXCEPT ![i].pc = "done", ![i].raised = TRUE]
             ELSE Goes(i, "cache.set")
    /\ UNCHANGED <<personal, cache, rules, nextId, senders, out, hist>>

\* update_task: await self._personal_repo.exists(task.id), ValueError when
\* no repository has the task
PersonalExists(i) ==
    /\ inflight[i].pc = "personal.exists"
    /\ IF exists(personal, inflight[i].task.id) THEN Goes(i, "personal.update")
       ELSE inflight' = [inflight EXCEPT ![i].pc = "done", ![i].raised = TRUE]
    /\ UNCHANGED <<team, personal, cache, rules, nextId, senders, out, hist>>

\* update_task: updated = await self._personal_repo.update(task)
PersonalUpdateAwaited(i) ==
    /\ inflight[i].pc = "personal.update"
    /\ LET put == update(personal, inflight[i].task)
       IN /\ personal' = put.repo
          /\ IF put.raised
             THEN inflight' = [inflight EXCEPT ![i].pc = "done", ![i].raised = TRUE]
             ELSE Goes(i, "cache.set")
    /\ UNCHANGED <<team, cache, rules, nextId, senders, out, hist>>

\* update_task: await self._cache.set(updated.id.value, updated)
CacheSetUpdated(i) ==
    /\ inflight[i].pc = "cache.set"
    /\ cache' = cache_set(cache, inflight[i].task)
    /\ Goes(i, "done")
    /\ UNCHANGED <<team, personal, rules, nextId, senders, out, hist>>

\* One await of coroutine i
Awaited(i) ==
    \/ CacheGet(i)
    \/ TeamGet(i)
    \/ PersonalGet(i)
    \/ CacheSetLoaded(i)
    \/ TeamExists(i)
    \/ TeamUpdateAwaited(i)
    \/ PersonalExists(i)
    \/ PersonalUpdateAwaited(i)
    \/ CacheSetUpdated(i)

\* Two requests PATCH /{task_id} for the same task
NextPatchRace ==
    \/ \E change \in RaceChanges : StartPatch(change)
    \/ \E i \in DOMAIN inflight : Awaited(i)

SpecPatchRace == InitRace /\ [][NextPatchRace]_vars

\* Two calls update_task for the same task
NextUpdateRace ==
    \/ \E change \in RaceChanges : StartUpdate(Replaced(RaceTask, change))
    \/ \E i \in DOMAIN inflight :
          \/ TeamExists(i)
          \/ TeamUpdateAwaited(i)
          \/ PersonalExists(i)
          \/ PersonalUpdateAwaited(i)
          \/ CacheSetUpdated(i)

SpecUpdateRace == InitRace /\ [][NextUpdateRace]_vars

----------------------------------------------------------------------------
(* Concurrent sync() calls on one TaskSyncService.  The awaits of a call   *)
(* are the two listings of _execute_rule and the destination write of each *)
(* source task; a task that needs no write is passed in a step of its own, *)
(* which touches nothing but the call's result.                            *)

\* Source tasks with distinct source ids
SyncRaceTasks ==
    << Task("a", <<"A">>, "todo", <<"review">>, "x"),
       Task("b", <<"B">>, "todo", <<"review">>, None) >>

\* A sync() call: the rules it has still to run (the first is the one being
\* executed), the await it is suspended at, the listing of the source still to
\* go through, synced_ids, the result of the rule and the results so far.
SyncCall(rules_to_run) ==
    [op |-> "sync", pc |-> "next rule", todo |-> rules_to_run,
     source_tasks |-> <<>>, synced_ids |-> <<>>,
     result |-> SyncResult(None), results |-> <<>>]

InitSyncRace ==
    /\ team \in {SubSeq(SyncRaceTasks, 1, 1), SyncRaceTasks}
    /\ personal = <<>>
    /\ cache = <<>>
    /\ rules \in {<<r>> : r \in RulePool}
    /\ nextId = 0
    /\ senders = <<>>
    /\ out = Idle
    /\ hist = NoHistory
    /\ inflight = <<>>

\* sync() is called
StartSync ==
    /\ Len(inflight) < MaxCalls
    /\ inflight' = Append(inflight, SyncCall(rules))
    /\ UNCHANGED <<team, personal, cache, rules, nextId, senders, out, hist>>

\* sync: the loop over rules_to_run comes to its next rule, or to its end
NextRule(i) ==
    /\ inflight[i].pc = "next rule"
    /\ LET todo == inflight[i].todo
       IN IF todo = <<>> THEN inflight' = [inflight EXCEPT ![i].pc = "done"]
          ELSE IF ~Head(todo).enabled
          THEN inflight' = [inflight EXCEPT ![i].todo = Tail(todo)]
          ELSE inflight' = [inflight EXCEPT ![i].pc = "source.list_tasks",
                                            ![i].result = SyncResult(Head(todo).name)]
    /\ UNCHANGED <<team, personal, cache, rules, nextId, senders, out, hist>>

\* _execute_rule: source_tasks = await self._source_repo.list_tasks()
SourceListed(i) ==
    /\ inflight[i].pc = "source.list_tasks"
    /\ inflight' = [inflight EXCEPT ![i].pc = "dest.list_tasks",
                                    ![i].source_tasks = list_tasks(team)]
    /\ UNCHANGED <<team, personal, cache, rules, nextId, senders, out, hist>>

\* _execute_rule: dest_tasks = await self._dest_repo.list_tasks() and
\* synced_ids
DestListed(i) ==
    /\ inflight[i].pc = "dest.list_tasks"
    /\ inflight' = [inflight EXCEPT
                        ![i].pc = "task",
                        ![i].synced_ids = get_synced_source_ids(list_tasks(personal))]
    /\ UNCHANGED <<team, personal, cache, rules, nextId, senders, out, hist>>

\* _execute_rule: the loop body for the next source task, with its awaited
\* destination write; after the last task the result is appended
TaskProcessed(i) ==
    /\ inflight[i].pc = "task"
    /\ LET call == inflight[i]
       IN IF call.source_tasks = <<>>
          THEN /\ inflight' = [inflight EXCEPT
                                  ![i].pc = "next rule",
                                  ![i].todo = Tail(call.todo),
                                  ![i].results = Append(call.results, call.result)]
               /\ UNCHANGED <<personal, nextId>>
          ELSE \E now \in SyncTimes :
               \E r \in {ProcessTask([dst |-> personal, gen |-> nextId,
                                       result |-> call.result, writes |-> <<>>],
                                      Head(call.source_tasks), Head(call.todo),
                                      call.synced_ids, NoFaults, now)} :
                  /\ r.gen <= MaxGen
                  /\ personal' = r.dst
                  /\ nextId' = r.gen
                  /\ inflight' = [inflight EXCEPT
                                     ![i].source_tasks = Tail(call.source_tasks),
                                     ![i].result = r.result]
    /\ UNCHANGED <<team, cache, rules, senders, out, hist>>

NextSyncRace ==
    \/ StartSync
    \/ \E i \in DOMAIN inflight : NextRule(i)
    \/ \E i \in DOMAIN inflight : SourceListed(i)
    \/ \E i \in DOMAIN inflight : DestListed(i)
    \/ \E i \in DOMAIN inflight : TaskProcessed(i)

SpecSyncRace == InitSyncRace /\ [][NextSyncRace]_vars

----------------------------------------------------------------------------
(* The engine on three source tasks of which a rule accepts two and skips  *)
(* one.                                                                    *)

ScenarioTasks ==
    { Task("a", <<"A">>, "todo", <<"review">>, None),
      Task("a", <<"A2">>, "todo", <<"review">>, None),
      Task("b", <<"B">>, "done", <<"review">>, None),
      Task("c", <<"C">>, "todo", <<"bug">>, None) }

ScenarioRules ==
    { SyncRule("review", tag_filter("review"), NoMapper, {"done"}, FALSE, TRUE),
      SyncRule("review_updates", tag_filter("review"), NoMapper, {"done"}, TRUE,
               TRUE) }

NextScenario ==
    \/ \E t \in ScenarioTasks : TeamCreate(t)
    \/ \E t \in ScenarioTasks : TeamUpdate(t)
    \/ \E rule \in ScenarioRules : AddRule(rule)
    \/ \E rule_name \in {None} \cup {r.name : r \in ScenarioRules} : Sync(rule_name)

SpecScenario == InitSync /\ [][NextScenario]_vars

----------------------------------------------------------------------------
(* The status route of the API over the same service.                      *)

\* Status strings a request carries: values of TaskStatus, and strings that
\* are not
StatusStrings == {"done", "in_progress", "DONE", ""}

\* The readings of datetime.now() a request can get
ApiTimes == {1}

ApiUpdateTaskStatus(task_id, status, now) ==
    Served("api_update_task_status",
           [id |-> task_id, status |-> status, now |-> now],
           api_update_task_status(team, personal, cache, task_id, status, now))

NextApi ==
    \/ \E task_id \in ServiceIds : GetTask(task_id)
    \/ \E id \in Keys(team) : TeamDelete(id)
    \/ \E id \in Keys(personal) : PersonalDelete(id)
    \/ \E task_id \in ServiceIds, status \in StatusStrings, now \in ApiTimes :
           ApiUpdateTaskStatus(task_id, status, now)

SpecApi == InitService /\ [][NextApi]_vars

----------------------------------------------------------------------------
(* Queries over the cache: tasks with statuses, priorities, sources,       *)
(* assignees, tags and due dates, some of these with a UTC offset as the   *)
(* Notion repository parses them (src/repositories/notion.py:470-476).     *)

Times == 0..MaxTime

Dates == {NoDate} \cup {DateTime(t, aware) : t \in Times, aware \in BOOLEAN}

\* Tasks the team repository is given
QueryTasks ==
    { [Task("q1", <<"Q1">>, "todo", <<"x">>, None) EXCEPT
           !.priority = "high", !.assignee = "ann", !.due_date = DateTime(1, FALSE)],
      [Task("q2", <<"Q2">>, "done", <<"x", "y">>, None) EXCEPT
           !.source = "manual", !.due_date = DateTime(0, FALSE)],
      [Task("q3", <<"Q3">>, "in_progress", <<"y">>, None) EXCEPT
           !.priority = "low", !.due_date = DateTime(1, TRUE)],
      Task("q4", <<"Q4">>, "todo", <<>>, None) }

\* Tasks is_overdue is asked about
OverdueTasks ==
    { [Task("q", <<"Q">>, status, <<>>, None) EXCEPT !.due_date = due] :
          status \in TaskStatus, due \in Dates }

\* The criteria a filter is given, one at a time and several at once
Unfiltered == TaskFilter({}, {}, {}, None, NoDate, NoDate, <<>>, 100, 0)

Criteria ==
    { Unfiltered,
      [Unfiltered EXCEPT !.status = {"todo"}],
      [Unfiltered EXCEPT !.status = {"todo", "done"}],
      [Unfiltered EXCEPT !.priority = {"high", "low"}],
      [Unfiltered EXCEPT !.source = {"manual"}],
      [Unfiltered EXCEPT !.assignee = "ann"],
      [Unfiltered EXCEPT !.due_before = DateTime(1, FALSE)],
      [Unfiltered EXCEPT !.due_before = DateTime(MaxTime, TRUE)],
      [Unfiltered EXCEPT !.due_after = DateTime(0, FALSE)],
      [Unfiltered EXCEPT !.tags = <<"x">>],
      [Unfiltered EXCEPT !.tags = <<"x", "y">>],
      [Unfiltered EXCEPT !.status = {"todo"}, !.tags = <<"x", "y">>],
      [Unfiltered EXCEPT !.status = {"todo", "done"},
                         !.due_before = DateTime(MaxTime, FALSE)],
      [Unfiltered EXCEPT !.status = {"done"}, !.due_before = DateTime(MaxTime, FALSE),
                         !.due_after = DateTime(0, FALSE)] }

\* ... each with the slices a caller can ask for (the command line and the
\* MCP tool pass any integer as limit)
Filters ==
    {NoFilter} \cup
    { [f EXCEPT !.limit = limit, !.offset = offset] :
          f \in Criteria, limit \in {-1, 0, 2, 100}, offset \in {0, 1} }

InitQuery ==
    /\ team = <<>>
    /\ personal = <<>>
    /\ cache = <<>>
    /\ rules = <<>>
    /\ nextId = 0
    /\ senders = <<>>
    /\ inflight = <<>>
    /\ out = Idle
    /\ hist = NoHistory

ListTasks(filter) ==
    Served("list_tasks", [filter |-> filter],
           TaskService_list_tasks(team, personal, cache, filter))

GetOverdueTasks(now) ==
    Served("get_overdue_tasks", [now |-> now],
           get_overdue_tasks(team, personal, cache, now))

\* Task.is_overdue() on a task, at the instant now
IsOverdue(task, now) ==
    /\ out' = [op |-> "is_overdue", arg |-> [task |-> task, now |-> now],
               value |-> is_overdue(task, now).value,
               raised |-> is_overdue(task, now).raised, calls |-> <<>>]
    /\ UNCHANGED <<team, personal, cache, rules, nextId, senders, hist, inflight>>

NextQuery ==
    \/ \E t \in QueryTasks : TeamCreate(t)
    \/ SyncFromTeam
    \/ \E filter \in Filters : ListTasks(filter)

SpecQuery == InitQuery /\ [][NextQuery]_vars

NextOverdue ==
    \/ \E t \in QueryTasks : TeamCreate(t)
    \/ SyncFromTeam
    \/ \E now \in Times : GetOverdueTasks(now)
    \/ \E task \in OverdueTasks, now \in Times : IsOverdue(task, now)

SpecOverdue == InitQuery /\ [][NextOverdue]_vars

----------------------------------------------------------------------------
(* NotificationService, src/services/notification_service.py.  A sender is *)
(* its channel name and what its send() returns; the channels argument is  *)
(* None (given is FALSE) or the names it holds.                            *)

Sender(channel_name, success) == [channel_name |-> channel_name, success |-> success]

AllChannels == [given |-> FALSE, names |-> {}]
Channels(names) == [given |-> TRUE, names |-> names]

\* Mutant of send_notification: the loop ends at the first sender that reports
\* false.
RECURSIVE send_notification_until_failure(_, _, _, _)
send_notification_until_failure(acc, all_senders, i, channels) ==
    IF i > Len(all_senders) THEN acc
    ELSE LET sender == all_senders[i]
         IN IF ~channels.given \/ sender.channel_name \in channels.names
            THEN IF ~sender.success
                 THEN [results |-> DictSet(acc.results,
                                      [id |-> sender.channel_name,
                                       success |-> sender.success]),
                       sent |-> Append(acc.sent, i)]
                 ELSE send_notification_until_failure(
                     [results |-> DictSet(acc.results,
                                      [id |-> sender.channel_name,
                                       success |-> sender.success]),
                      sent |-> Append(acc.sent, i)],
                     all_senders, i + 1, channels)
            ELSE send_notification_until_failure(acc, all_senders, i + 1, channels)

\* send_notification: the loop over self._senders from position i on; acc
\* carries the results dict and the positions of the senders whose send() was
\* awaited, in order.
RECURSIVE send_notification(_, _, _, _)
send_notification(acc, all_senders, i, channels) ==
    IF i > Len(all_senders) THEN acc
    ELSE LET sender == all_senders[i]
         IN IF ~channels.given \/ sender.channel_name \in channels.names
            THEN send_notification(
                     [results |-> DictSet(acc.results,
                                      [id |-> sender.channel_name,
                                       success |-> sender.success]),
                      sent |-> Append(acc.sent, i)],
                     all_senders, i + 1, channels)
            ELSE send_notification(acc, all_senders, i + 1, channels)

ChannelNames == {"discord", "print", "log"}

SenderPool == {Sender(name, success) : name \in ChannelNames, success \in BOOLEAN}

ChannelPool ==
    {AllChannels} \cup
    {Channels(names) : names \in {{}, {"discord"}, {"print"}, {"discord", "print"},
                                  {"print", "sms"}}}

InitNotify ==
    /\ team = <<>>
    /\ personal = <<>>
    /\ cache = <<>>
    /\ rules = <<>>
    /\ nextId = 0
    /\ senders = <<>>
    /\ inflight = <<>>
    /\ out = Idle
    /\ hist = NoHistory

\* NotificationService.add_sender
AddSender(sender) ==
    /\ Len(senders) < MaxSenders
    /\ senders' = Append(senders, sender)
    /\ out' = Idle
    /\ UNCHANGED <<team, personal, cache, rules, nextId, hist, inflight>>

\* NotificationService.remove_sender: the first sender of that name goes
RemoveSender(channel_name) ==
    /\ \E i \in DOMAIN senders : senders[i].channel_name = channel_name
    /\ LET i == CHOOSE i \in DOMAIN senders :
                    /\ senders[i].channel_name = channel_name
                    /\ \A j \in 1..(i - 1) : senders[j].channel_name # channel_name
       IN senders' = SubSeq(senders, 1, i - 1) \o SubSeq(senders, i + 1, Len(senders))
    /\ out' = Idle
    /\ UNCHANGED <<team, personal, cache, rules, nextId, hist, inflight>>

\* NotificationService.send_notification(notification, channels)
SendNotification(channels) ==
    /\ LET r == send_notification([results |-> <<>>, sent |-> <<>>], senders, 1,
                                  channels)
       IN out' = [op |-> "send_notification", channels |-> channels,
                  value |-> r.results, sent |-> r.sent]
    /\ UNCHANGED <<team, personal, cache, rules, nextId, senders, hist, inflight>>

NextNotify ==
    \/ \E sender \in SenderPool : AddSender(sender)
    \/ \E channel_name \in ChannelNames : RemoveSender(channel_name)
    \/ \E channels \in ChannelPool : SendNotification(channels)

SpecNotify == InitNotify /\ [][NextNotify]_vars

----------------------------------------------------------------------------
(* combine_filters on its own: two predicates, a mode and a task are drawn, *)
(* and the combined predicate is applied to the task.                      *)

Predicates ==
    { tag_filter("x"), tag_filter("y"), status_filter({"todo"}),
      priority_filter({"high", "low"}), assignee_filter("ann"),
      combine_filters(<<tag_filter("y"), status_filter({"done"})>>, "and") }

InitCombine ==
    /\ team = <<>>
    /\ personal = <<>>
    /\ cache = <<>>
    /\ rules = <<>>
    /\ nextId = 0
    /\ senders = <<>>
    /\ inflight = <<>>
    /\ out \in [op : {"input"}, p1 : Predicates, p2 : Predicates,
                 mode : {"and", "or"}, task : QueryTasks]
    /\ hist = NoHistory

\* combine_filters(p1, p2, mode=mode)(task)
CombineFilters ==
    /\ out.op = "input"
    /\ out' = [out EXCEPT !.op = "combine_filters"] @@
               [value |-> ApplyFilter(combine_filters(<<out.p1, out.p2>>, out.mode),
                                      out.task)]
    /\ UNCHANGED <<team, personal, cache, rules, nextId, senders, hist, inflight>>

NextCombine == CombineFilters

SpecCombine == InitCombine /\ [][NextCombine]_vars

----------------------------------------------------------------------------
(* Properties of the sync engine.                                          *)

\* The last operation was a sync() call; team is then the source it read,
\* because every other operation replaces out.
Synced == out.op = "sync"

\* Positions of the source tasks the rule's predicate accepts
AcceptedBy(rule) ==
    {i \in DOMAIN team : ApplyFilter(rule.source_filter, team[i])}

\* ... and of those whose status the rule does not skip
EligibleFor(rule) ==
    {i \in AcceptedBy(rule) : team[i].status \notin rule.skip_statuses}

\* Destination tasks stamped with the provenance (source_id, source_db_name)
SyncedFrom(source_id) ==
    {j \in DOMAIN personal :
        /\ personal[j].metadata.sync_source_id = source_id
        /\ personal[j].metadata.sync_source_db = source_db_name}

\* C1: for every source task, the destination holds at most one task stamped
\* with that task's source id (external id, else local id) and the source name.
C1_NoDuplicateProvenance ==
    \A i \in DOMAIN team : Cardinality(SyncedFrom(source_id_of(team[i]))) <= 1

\* C2: a rule with sync_updates = False, run a second time with the same
\* argument while nothing else touched source, destination or rules, creates
\* nothing and updates nothing.
C2_RerunWithoutUpdates ==
    (Synced /\ out.rerun) =>
        \A k \in DOMAIN out.runs :
            ~out.runs[k].rule.sync_updates =>
                /\ out.runs[k].result.created = 0
                /\ out.runs[k].result.updated = 0

\* C2 witness: such a second run met a task the first run had synced.
C2_Witness ==
    /\ Synced /\ out.rerun
    /\ \E k \in DOMAIN out.runs :
          /\ ~out.runs[k].rule.sync_updates
          /\ out.runs[k].result.skipped > 0
          /\ EligibleFor(out.runs[k].rule) # {}

\* C3 as stated: a rule with sync_updates = True, run a second time while the
\* source (and the rules) are unchanged, creates nothing and updates every
\* accepted source task whose status is not skipped.
C3_RerunSourceUnchanged ==
    (Synced /\ out.source_rerun) =>
        \A k \in DOMAIN out.runs :
            out.runs[k].rule.sync_updates =>
                /\ out.runs[k].result.created = 0
                /\ out.runs[k].result.updated
                       = Cardinality(EligibleFor(out.runs[k].rule))

\* C3 amended: the same when the destination is unchanged in between as well.
C3_RerunUnchanged ==
    (Synced /\ out.rerun) =>
        \A k \in DOMAIN out.runs :
            out.runs[k].rule.sync_updates =>
                /\ out.runs[k].result.created = 0
                /\ out.runs[k].result.updated
                       = Cardinality(EligibleFor(out.runs[k].rule))

\* C3 witness: a second run that updated two destination tasks' worth of
\* source tasks.
C3_Witness ==
    /\ Synced /\ out.rerun
    /\ \E k \in DOMAIN out.runs :
          /\ out.runs[k].rule.sync_updates
          /\ out.runs[k].result.updated = 2

\* C4: no destination create or update is made for a source task whose status
\* is in the rule's skip_statuses, and the destination tasks stamped with the
\* source id of such a task (when no other source task shares that id) are
\* after the run what they were before it.
C4_SkippedStatusNeverWritten ==
    [][out'.op = "sync" =>
        /\ \A k \in DOMAIN out'.runs :
              /\ \A w \in Range(out'.runs[k].writes) :
                    w.task.status \notin out'.runs[k].rule.skip_statuses
              /\ Len(out'.runs[k].writes)
                    = out'.runs[k].result.created + out'.runs[k].result.updated
        /\ \A i \in DOMAIN team :
              /\ \A k \in DOMAIN out'.runs :
                    team[i].status \in out'.runs[k].rule.skip_statuses
              /\ \A j \in DOMAIN team \ {i} :
                    source_id_of(team[j]) # source_id_of(team[i])
              => {personal'[j] : j \in {n \in DOMAIN personal' :
                       personal'[n].metadata.sync_source_id = source_id_of(team[i])}}
                 = {personal[j] : j \in SyncedFrom(source_id_of(team[i]))}
      ]_vars

\* C4 witness: a rule with sync_updates ran over a source task whose status it
\* skips and whose destination copy, made by an earlier run, still has the
\* status it was created with.
C4_Witness ==
    /\ Synced
    /\ \E k \in DOMAIN out.runs : \E i \in AcceptedBy(out.runs[k].rule) :
          /\ out.runs[k].rule.sync_updates
          /\ team[i].status \in out.runs[k].rule.skip_statuses
          /\ \E j \in SyncedFrom(source_id_of(team[i])) :
                /\ personal[j].title = team[i].title
                /\ personal[j].status # team[i].status

C6_SyncNeverRaises ==
    Synced =>
        /\ ~out.raised
        /\ \A k \in DOMAIN out.runs :
              LET rule == out.runs[k].rule
                  errors == out.runs[k].result.errors
              IN /\ ListingRaises(out.faults, rule) =>
                        errors = <<<<"Error executing rule", rule.name>>>>
                 /\ ~ListingRaises(out.faults, rule) =>
                        \A i \in DOMAIN team :
                            \/ team[i].id \in out.faults.filter
                            \/ /\ i \in EligibleFor(rule)
                               /\ rule.sync_updates
                               /\ team[i].id \in out.faults.mapper \cup out.faults.write
                            => <<"Error syncing task", team[i].id>> \in Range(errors)

\* C6 witness: a sync() call returned two results, each carrying the error of
\* a listing that raised.
C6_Witness ==
    /\ Synced
    /\ out.faults.list # "none"
    /\ out.faults.at = {"r1", "r2"}
    /\ Len(out.runs) = 2
    /\ \A k \in DOMAIN out.runs : Len(out.runs[k].result.errors) = 1

----------------------------------------------------------------------------
(* Properties of the task service.  A contract of one call relates the     *)
(* stores before the call (unprimed) to the stores and the outcome after   *)
(* it (primed).                                                            *)

\* The step is a call of the method op
Calls(op) == out'.op = op

\* The stored tasks other than id are the same in d and e, and id is gone
\* from e
Removed(d, e, id) ==
    /\ Keys(e) = Keys(d) \ {id}
    /\ \A k \in Keys(e) : DictGet(e, k) = DictGet(d, k)

\* e stores t under t.id, and everything else as d does
Stored(d, e, t) ==
    /\ Keys(e) = Keys(d) \cup {t.id}
    /\ \A k \in Keys(e) : DictGet(e, k) = IF k = t.id THEN t ELSE DictGet(d, k)

\* C7: right after create_task(t, personal) returned, get_task(t.id) returns
\* the created task and calls no repository.
C7_CreateThenGetHitsCache ==
    (out.op = "create_task" /\ ~out.raised) =>
        LET got == get_task(team, personal, cache, out.arg.task.id)
        IN /\ out.value = out.arg.task
           /\ got.value = out.value
           /\ ~got.raised
           /\ got.calls = <<>>

\* C7 witness: a task was created in the personal repository while the team
\* repository holds another task under the same id.
C7_Witness ==
    /\ out.op = "create_task" /\ ~out.raised
    /\ out.arg.personal
    /\ out.arg.task.id \in Keys(team)
    /\ DictGet(team, out.arg.task.id) # out.arg.task

\* C8: delete_task(id) deletes from the team repository, and from the
\* personal repository only when the team repository had no such task; a
\* successful deletion returns true and leaves no cache entry, so that
\* get_task(id) then asks the repositories and returns empty when neither
\* holds id; when neither held id it returns false and changes nothing; it
\* never raises.
C8_DeleteTask ==
    [][Calls("delete_task") =>
        LET id == out'.arg.id
            in_team == id \in Keys(team)
            in_personal == id \in Keys(personal)
            got == get_task(team', personal', cache', id)
        IN /\ ~out'.raised
           /\ out'.value = (in_team \/ in_personal)
           /\ out'.calls = IF in_team THEN <<"team.delete">>
                           ELSE <<"team.delete", "personal.delete">>
           /\ in_team => Removed(team, team', id) /\ personal' = personal
           /\ ~in_team /\ in_personal =>
                 Removed(personal, personal', id) /\ team' = team
           /\ out'.value =>
                 /\ id \notin Keys(cache')
                 /\ Removed(cache, cache', id)
                 /\ got.calls # <<>>
                 /\ id \notin Keys(team') \cup Keys(personal') => got.value = NoTask
           /\ ~out'.value => UNCHANGED <<team, personal, cache>>
      ]_vars

\* C8 witness: a task was deleted from the personal repository, and no store
\* holds its id any more.
C8_Witness ==
    /\ out.op = "delete_task" /\ out.value
    /\ out.calls = <<"team.delete", "personal.delete">>
    /\ out.arg.id \notin Keys(team) \cup Keys(personal) \cup Keys(cache)

\* C9: get_task(id) returns the cached task without a repository call; on a
\* cache miss the team repository's task, else the personal repository's,
\* stored in the cache under id; and empty, with the cache unchanged, when no
\* store holds id.  It never raises and never changes a repository.
C9_GetTask ==
    [][Calls("get_task") =>
        LET id == out'.arg.id
            hit == id \in Keys(cache)
            in_team == id \in Keys(team)
            in_personal == id \in Keys(personal)
        IN /\ ~out'.raised
           /\ UNCHANGED <<team, personal>>
           /\ hit => /\ out'.value = DictGet(cache, id)
                     /\ out'.calls = <<>>
                     /\ cache' = cache
           /\ ~hit /\ in_team =>
                     /\ out'.value = DictGet(team, id)
                     /\ Stored(cache, cache', out'.value)
           /\ ~hit /\ ~in_team /\ in_personal =>
                     /\ out'.value = DictGet(personal, id)
                     /\ Stored(cache, cache', out'.value)
           /\ ~hit /\ ~in_team /\ ~in_personal =>
                     /\ out'.value = NoTask
                     /\ cache' = cache
      ]_vars

\* C9 witness: a cache miss was served by the personal repository and is now
\* cached.
C9_Witness ==
    /\ out.op = "get_task"
    /\ out.calls = <<"team.get_by_id", "personal.get_by_id">>
    /\ out.value # NoTask
    /\ DictGet(cache, out.arg.id) = out.value
    /\ DictGet(personal, out.arg.id) = out.value

\* C10: update_task(t) stores t in the team repository when it holds t.id,
\* else in the personal repository when that holds t.id, and then in the
\* cache; when neither holds t.id it raises and changes no store.
C10_UpdateTask ==
    [][Calls("update_task") =>
        LET t == out'.arg.task
            in_team == t.id \in Keys(team)
            in_personal == t.id \in Keys(personal)
        IN /\ in_team =>
                 /\ Stored(team, team', t) /\ Keys(team') = Keys(team)
                 /\ personal' = personal
           /\ ~in_team /\ in_personal =>
                 /\ Stored(personal, personal', t) /\ Keys(personal') = Keys(personal)
                 /\ team' = team
           /\ in_team \/ in_personal =>
                 /\ ~out'.raised
                 /\ out'.value = t
                 /\ Stored(cache, cache', t)
           /\ ~in_team /\ ~in_personal =>
                 /\ out'.raised
                 /\ UNCHANGED <<team, personal, cache>>
      ]_vars

\* C10 witness: update_task raised for an id that only the cache still holds.
C10_Witness ==
    /\ out.op = "update_task" /\ out.raised
    /\ out.arg.task.id \notin Keys(team) \cup Keys(personal)
    /\ out.arg.task.id \in Keys(cache)

----------------------------------------------------------------------------
(* Properties of the bulk loads.                                           *)

\* Every task of repo is in cache e under its id, with repo's value
Loaded(repo, e) == \A i \in DOMAIN repo : DictGet(e, repo[i].id) = repo[i]

\* No entry of cache d is gone from e, and the entries of d whose id is not
\* in ids have kept their value
Kept(d, e, ids) ==
    /\ Keys(d) \subseteq Keys(e)
    /\ \A id \in Keys(d) \ ids : DictGet(e, id) = DictGet(d, id)

\* A bulk load leaves both repositories alone, removes no cache entry and
\* keeps the entries of the ids it did not load
LoadFrame ==
    /\ team' = team /\ personal' = personal
    /\ Keys(cache') = Keys(cache) \cup
           (IF out'.op = "sync_from_personal" THEN {} ELSE Keys(team)) \cup
           (IF out'.op = "sync_from_team" THEN {} ELSE Keys(personal))
    /\ ~out'.raised

\* C11 as stated: each load sets the cache entry of every task of every
\* repository it loads to that repository's value, returns the numbers
\* loaded, and removes no cache entry.
C11_LoadsEveryRepositoryValue ==
    [][/\ Calls("sync_from_team") =>
              /\ LoadFrame /\ Loaded(team, cache')
              /\ Kept(cache, cache', Keys(team))
              /\ out'.value = Len(team)
       /\ Calls("sync_from_personal") =>
              /\ LoadFrame /\ Loaded(personal, cache')
              /\ Kept(cache, cache', Keys(personal))
              /\ out'.value = Len(personal)
       /\ Calls("sync_all") =>
              /\ LoadFrame /\ Loaded(team, cache') /\ Loaded(personal, cache')
              /\ Kept(cache, cache', Keys(team) \cup Keys(personal))
              /\ out'.value = [team_tasks |-> Len(team),
                               personal_tasks |-> Len(personal)]
      ]_vars

\* C11 amended: the same, except that sync_all leaves the personal
\* repository's value under an id that both repositories hold.
C11_LoadsLastRepositoryValue ==
    [][/\ Calls("sync_from_team") =>
              /\ LoadFrame /\ Loaded(team, cache')
              /\ Kept(cache, cache', Keys(team))
              /\ out'.value = Len(team)
       /\ Calls("sync_from_personal") =>
              /\ LoadFrame /\ Loaded(personal, cache')
              /\ Kept(cache, cache', Keys(personal))
              /\ out'.value = Len(personal)
       /\ Calls("sync_all") =>
              /\ LoadFrame
              /\ Loaded(SelectSeq(team, LAMBDA x : x.id \notin Keys(personal)),
                        cache')
              /\ Loaded(personal, cache')
              /\ Kept(cache, cache', Keys(team) \cup Keys(personal))
              /\ out'.value = [team_tasks |-> Len(team),
                               personal_tasks |-> Len(personal)]
      ]_vars

\* C11 witness: after a load of the team repository the cache still holds,
\* next to a loaded task, a task that no repository holds any more.
C11_Witness ==
    /\ out.op = "sync_from_team"
    /\ out.value > 0
    /\ \E id \in Keys(cache) : id \notin Keys(team) \cup Keys(personal)

----------------------------------------------------------------------------
(* Properties of creation.                                                 *)

\* C12: create_task of a task whose identifier the target repository already
\* holds raises, and leaves both repositories (so the stored record of that
\* identifier) and the cache as they were.
C12_DuplicateCreateFails ==
    [][(/\ Calls("create_task")
        /\ out'.arg.task.id \in Keys(IF out'.arg.personal THEN personal ELSE team))
       => /\ out'.raised
          /\ out'.value = NoTask
          /\ team' = team
          /\ personal' = personal
          /\ cache' = cache
      ]_vars

\* C12 witness: a create_task was refused for an identifier whose stored
\* record and whose cache entry both differ from the task offered.
C12_Witness ==
    /\ out.op = "create_task"
    /\ out.raised
    /\ LET target == IF out.arg.personal THEN personal ELSE team
       IN /\ out.arg.task.id \in Keys(target)
          /\ DictGet(target, out.arg.task.id) # out.arg.task
    /\ out.arg.task.id \in Keys(cache)
    /\ DictGet(cache, out.arg.task.id) # out.arg.task

----------------------------------------------------------------------------
(* Properties of the queries.                                              *)

\* C13 as stated: is_overdue answers, for every task and every instant, false
\* for a done task and, for any other task, whether it has a due date
\* strictly before that instant; get_overdue_tasks answers with no done task.
C13_OverdueIffDueBeforeNow ==
    /\ out.op = "is_overdue" =>
          /\ ~out.raised
          /\ out.value = (/\ out.arg.task.status # "done"
                          /\ out.arg.task.due_date.set
                          /\ out.arg.task.due_date.t < out.arg.now)
    /\ out.op = "get_overdue_tasks" =>
          /\ ~out.raised
          /\ \A i \in DOMAIN out.value : out.value[i].status # "done"

\* The task passes every criterion set in the filter
PassesEvery(f, x) ==
    /\ f.status # {} => x.status \in f.status
    /\ f.priority # {} => x.priority \in f.priority
    /\ f.source # {} => x.source \in f.source
    /\ Truthy(f.assignee) => x.assignee = f.assignee
    /\ f.due_before.set => (x.due_date.set /\ x.due_date.t < f.due_before.t)
    /\ f.due_after.set => (x.due_date.set /\ x.due_date.t > f.due_after.t)
    /\ f.tags # <<>> => \E i \in DOMAIN f.tags : f.tags[i] \in Range(x.tags)

\* The elements of s at the 0-based positions lo, ..., hi - 1
Positions(s, lo, hi) ==
    LET first == IF lo < 0 THEN 0 ELSE lo
        last == IF hi > Len(s) THEN Len(s) ELSE hi
    IN IF first >= last THEN <<>> ELSE SubSeq(s, first + 1, last)

\* C18 as stated: list_tasks calls no repository and changes neither the
\* repositories nor the cache; it returns the cached tasks that pass every
\* criterion set in the filter, at positions [offset, offset + limit), and
\* the whole snapshot for no filter.
C18_ListIsFilteredSliceOfCache ==
    [][Calls("list_tasks") =>
          LET f == out'.arg.filter
          IN /\ team' = team /\ personal' = personal /\ cache' = cache
             /\ out'.calls = <<>>
             /\ ~out'.raised
             /\ out'.value =
                   IF f = NoFilter THEN cache
                   ELSE Positions(SelectSeq(cache, LAMBDA x : PassesEvery(f, x)),
                                  f.offset, f.offset + f.limit)
      ]_vars

----------------------------------------------------------------------------
(* Properties of combine_filters.                                          *)

\* C14: the predicate combined from p1 and p2 answers, on every task, p1 and
\* p2 in mode "and", and p1 or p2 in mode "or".
C14_CombineIsAndOr ==
    out.op = "combine_filters" =>
        LET a == ApplyFilter(out.p1, out.task)
            b == ApplyFilter(out.p2, out.task)
        IN /\ out.mode = "and" => out.value = (a /\ b)
           /\ out.mode = "or" => out.value = (a \/ b)

\* C14 witness: in mode "or", a task that one predicate accepts and the other
\* rejects is accepted.
C14_Witness ==
    /\ out.op = "combine_filters"
    /\ out.mode = "or"
    /\ ApplyFilter(out.p1, out.task)
    /\ ~ApplyFilter(out.p2, out.task)
    /\ out.value

----------------------------------------------------------------------------
(* Properties of the notification service.                                 *)

\* Positions of the registered senders the channels argument selects
Selected ==
    {i \in DOMAIN senders :
        ~out.channels.given \/ senders[i].channel_name \in out.channels.names}

\* send() was awaited once on every selected sender and on no other, in
\* registration order
SentOnceInOrder ==
    /\ Range(out.sent) = Selected
    /\ \A m, n \in DOMAIN out.sent : m < n => out.sent[m] < out.sent[n]

\* C15 as stated: send() is called exactly once on every selected sender, in
\* registration order, and the returned dict holds every selected sender's
\* result under its channel name.
C15_EverySenderResultRecorded ==
    out.op = "send_notification" =>
        /\ SentOnceInOrder
        /\ Keys(out.value) = {senders[i].channel_name : i \in Selected}
        /\ \A i \in Selected :
              DictGet(out.value, senders[i].channel_name).success = senders[i].success

\* C15 amended: the same, the dict holding under a channel name the result of
\* the last selected sender registered with that name.
C15_LastSenderResultRecorded ==
    out.op = "send_notification" =>
        /\ SentOnceInOrder
        /\ Keys(out.value) = {senders[i].channel_name : i \in Selected}
        /\ \A i \in Selected :
              (\A j \in Selected :
                   senders[j].channel_name = senders[i].channel_name => j <= i)
              => DictGet(out.value, senders[i].channel_name).success
                     = senders[i].success

\* C15 witness: a sender that reported false was followed by a selected sender
\* of another channel, and a registered sender was not selected.
C15_Witness ==
    /\ out.op = "send_notification"
    /\ Selected # DOMAIN senders
    /\ \E i, j \in Selected :
          /\ i < j
          /\ ~senders[i].success
          /\ senders[j].channel_name # senders[i].channel_name
          /\ DictGet(out.value, senders[i].channel_name).success = FALSE
          /\ DictGet(out.value, senders[j].channel_name).success = TRUE

----------------------------------------------------------------------------
(* Properties of the status route.                                         *)

\* C16: a status string that is no status value is answered 400, whether or
\* not the id exists, with no repository call and nothing changed; 404 is
\* answered exactly when the string is a status value and no repository holds
\* the id, again with nothing changed.
C16_InvalidStatusIsValidationFailure ==
    [][Calls("api_update_task_status") =>
          LET valid == out'.arg.status \in TaskStatus
              held == out'.arg.id \in Keys(team) \cup Keys(personal)
          IN /\ ~valid =>
                   /\ out'.value.code = 400
                   /\ out'.calls = <<>>
                   /\ team' = team /\ personal' = personal /\ cache' = cache
             /\ out'.value.code = 404 <=> (valid /\ ~held)
             /\ out'.value.code = 404 =>
                   team' = team /\ personal' = personal /\ cache' = cache
      ]_vars

\* C16 witness: 400 was answered for an id that a repository and the cache
\* hold.
C16_Witness ==
    /\ out.op = "api_update_task_status"
    /\ out.value.code = 400
    /\ out.arg.id \in Keys(team) \cup Keys(personal)
    /\ out.arg.id \in Keys(cache)

----------------------------------------------------------------------------
(* Properties of the counters of a run.                                    *)

\* The source holds exactly the tasks a, b and c of the scenario, a with the
\* given title
ScenarioSource(title_of_a) ==
    Range(team) = { Task("a", title_of_a, "todo", <<"review">>, None),
                    Task("b", <<"B">>, "done", <<"review">>, None),
                    Task("c", <<"C">>, "todo", <<"bug">>, None) }

\* The destination dst holds no copy of a
FirstRun(dst) == \A j \in DOMAIN dst : dst[j].metadata.sync_source_id # "a"

\* The destination dst holds one copy of a, made when its title was A
SecondRun(dst) ==
    /\ Cardinality({j \in DOMAIN dst : dst[j].metadata.sync_source_id = "a"}) = 1
    /\ \A j \in DOMAIN dst :
          dst[j].metadata.sync_source_id = "a" =>
              /\ dst[j].title = <<"A">>
              /\ dst[j].metadata.sync_source_db = source_db_name

\* C17: in a run in which nothing raises, errors is empty, every write is for
\* a different accepted source task, every other accepted task is counted in
\* skipped, and nothing is counted for a rejected task; on the source A(todo,
\* review), B(done, review), C(todo, bug) the first run gives created = 1 and
\* skipped = 1, and a run with sync_updates after A's title changed gives
\* created = 0, updated = 1, skipped = 1.
C17_EveryAcceptedTaskCountedOnce ==
    (Synced /\ out.faults = NoFaults) =>
        \A k \in DOMAIN out.runs :
            LET rule == out.runs[k].rule
                result == out.runs[k].result
                writes == out.runs[k].writes
                accepted == {team[i] : i \in AcceptedBy(rule)}
            IN /\ result.errors = <<>>
               /\ Len(writes) = result.created + result.updated
               /\ \A m, n \in DOMAIN writes : m # n => writes[m].task # writes[n].task
               /\ \A m \in DOMAIN writes : writes[m].task \in accepted
               /\ result.created = Cardinality({m \in DOMAIN writes :
                                                   writes[m].op = "create"})
               /\ result.skipped = Cardinality(accepted) - Len(writes)
               /\ (ScenarioSource(<<"A">>) /\ FirstRun(out.runs[k].dst)) =>
                      /\ result.created = 1 /\ result.updated = 0
                      /\ result.skipped = 1
               /\ (ScenarioSource(<<"A2">>) /\ SecondRun(out.runs[k].dst)
                     /\ rule.sync_updates) =>
                      /\ result.created = 0 /\ result.updated = 1
                      /\ result.skipped = 1

\* C17 witness: the second run of the scenario, after the first run created
\* the copy of A and A's title changed.
C17_Witness ==
    /\ Synced
    /\ ScenarioSource(<<"A2">>)
    /\ \E k \in DOMAIN out.runs :
          /\ out.runs[k].rule.sync_updates
          /\ SecondRun(out.runs[k].dst)
          /\ out.runs[k].result.updated = 1
          /\ out.runs[k].result.skipped = 1
          /\ \E j \in DOMAIN personal : personal[j].title = <<"A2">>

----------------------------------------------------------------------------
(* Properties of the sync engine when calls raise.  A run of a rule is     *)
(* compared with the run the same rule makes from the same destination     *)
(* when nothing raises.                                                    *)

\* The destination after run k of the last sync() call
RunEnd(k) == IF k < Len(out.runs) THEN out.runs[k + 1].dst ELSE personal

\* A repository's tasks, whatever identifiers they were given
Unnamed(d) == [i \in DOMAIN d |-> [d[i] EXCEPT !.id = None]]

\* The source tasks during whose processing a call raises in a run of rule
\* from dst: the predicate is called for every task, the mapper and the
\* destination for the tasks the run creates or updates.
Failing(rule, dst, gen, faults, now) ==
    LET clean == execute_rule(rule, team, dst, gen, NoFaults, now)
    IN {team[i].id : i \in {j \in DOMAIN team :
           \/ team[j].id \in faults.filter
           \/ /\ team[j].id \in faults.mapper \cup faults.write
              /\ \E w \in DOMAIN clean.writes :
                     clean.writes[w].task.id = team[j].id}}

\* C19: in a run of a rule whose listings succeed, every source task during
\* whose processing a call raises leaves exactly one error string, in source
\* order, and the counters, the destination writes and the destination are
\* those of the run without these tasks: no counter changes for a failing
\* task, and every other task has the outcome it has when nothing raises.
C19_TaskFailureIsIsolated ==
    Synced =>
        \A k \in DOMAIN out.runs :
            LET run == out.runs[k]
                rule == run.rule
                failing == Failing(rule, run.dst, run.gen, out.faults, out.now)
                failed == SelectSeq(team, LAMBDA t : t.id \in failing)
                rest == execute_rule(rule,
                                     SelectSeq(team, LAMBDA t : t.id \notin failing),
                                     run.dst, run.gen, NoFaults, out.now)
            IN ~ListingRaises(out.faults, rule) =>
                  /\ run.result.errors =
                        [i \in DOMAIN failed |-> <<"Error syncing task", failed[i].id>>]
                  /\ run.result.created = rest.result.created
                  /\ run.result.updated = rest.result.updated
                  /\ run.result.skipped = rest.result.skipped
                  /\ run.writes = rest.writes
                  /\ Unnamed(RunEnd(k)) = Unnamed(rest.dst)

\* C19 witness: a call raised for the first source task of a run and the run
\* went on to write a later one to the destination.
C19_Witness ==
    /\ Synced
    /\ Len(team) = 2
    /\ \E k \in DOMAIN out.runs :
          /\ out.runs[k].result.errors = <<<<"Error syncing task", team[1].id>>>>
          /\ \E w \in DOMAIN out.runs[k].writes :
                 out.runs[k].writes[w].task = team[2]

\* The enabled rules a sync(rule_name) call runs, in order
RulesRun ==
    SelectSeq(rules, LAMBDA r : r.enabled
                                /\ (Truthy(out.rule_name) => r.name = out.rule_name))

\* C20: a rule of a batch in which listing the source or the destination
\* raises reports exactly one error string and no created, updated or skipped
\* task and leaves the destination as it found it; every enabled rule of the
\* batch is reported, in order, and a rule whose listings succeed reports what
\* it reports when nothing raises.
C20_ListingFailureAbortsOneRule ==
    Synced =>
        /\ Len(out.runs) = Len(RulesRun)
        /\ \A k \in DOMAIN out.runs :
              LET run == out.runs[k]
                  rule == run.rule
                  clean == execute_rule(rule, team, run.dst, run.gen, NoFaults,
                                        out.now)
              IN /\ rule = RulesRun[k]
                 /\ ListingRaises(out.faults, rule) =>
                       /\ run.result = [SyncResult(rule.name) EXCEPT !.errors =
                                            <<<<"Error executing rule", rule.name>>>>]
                       /\ run.writes = <<>>
                       /\ RunEnd(k) = run.dst
                 /\ ~ListingRaises(out.faults, rule) =>
                       /\ run.result = clean.result
                       /\ run.writes = clean.writes
                       /\ RunEnd(k) = clean.dst

\* C20 witness: in a batch holding a disabled rule, listing raised in the
\* first executed rule only and the second went on to create a task.
C20_Witness ==
    /\ Synced
    /\ \E i \in DOMAIN rules : ~rules[i].enabled
    /\ Len(out.runs) = 2
    /\ ListingRaises(out.faults, out.runs[1].rule)
    /\ ~ListingRaises(out.faults, out.runs[2].rule)
    /\ Len(out.runs[1].result.errors) = 1
    /\ out.runs[2].result.created > 0

----------------------------------------------------------------------------
(* Properties of the choice of rules in sync().                            *)

\* C21: sync(rule_name) with a name runs the enabled rules of that name and
\* no other, sync() without one (None, or the empty string) runs every
\* enabled rule, both in the order of registration; the returned list has
\* one SyncResult per rule run, in that order, carrying the rule's name, and
\* none for a disabled rule or a rule of another name.
C21_RunsEnabledRulesInOrder ==
    Synced =>
        LET named == out.rule_name # None /\ out.rule_name # ""
            chosen == SelectSeq(rules, LAMBDA r :
                          r.enabled /\ (named => r.name = out.rule_name))
        IN /\ [k \in DOMAIN out.runs |-> out.runs[k].rule] = chosen
           /\ \A k \in DOMAIN out.runs :
                  out.runs[k].result.rule_name = chosen[k].name

\* C21 witness: with three rules registered, a disabled one of the name
\* first, a call with the name returned the result of the one enabled rule of
\* that name.
C21_Witness ==
    /\ Synced
    /\ out.rule_name = "r1"
    /\ Len(rules) = 3
    /\ ~rules[1].enabled /\ rules[1].name = "r1"
    /\ \E i \in DOMAIN rules : rules[i].name = "r2" /\ rules[i].enabled
    /\ Len(out.runs) = 1
    /\ out.runs[1].rule.enabled
    /\ out.runs[1].result.created > 0

----------------------------------------------------------------------------
(* Properties of the tasks sync() creates.                                 *)

\* The source tasks run k of the last sync() call created a task for, in
\* order, and the tasks the run added to the destination
Creations(k) == SelectSeq(out.runs[k].writes, LAMBDA w : w.op = "create")

Created(k) == SubSeq(RunEnd(k), Len(out.runs[k].dst) + 1, Len(RunEnd(k)))

\* Task d, created in run k for source_task, has a new identifier, the
\* personal source, no external id and the provenance of the source task over
\* the mapped metadata
Stamped(d, k, source_task) ==
    LET mapped == ApplyMapper(out.runs[k].rule.field_mapper, source_task)
    IN /\ d.id \notin Keys(out.runs[k].dst)
       /\ \A j \in DOMAIN RunEnd(k) : RunEnd(k)[j].id = d.id => RunEnd(k)[j] = d
       /\ d.source = "notion_personal"
       /\ d.external_id = None
       /\ d.metadata = [mapped.metadata EXCEPT
                            !.sync_source_id = IF Truthy(source_task.external_id)
                                               THEN source_task.external_id
                                               ELSE source_task.id,
                            !.sync_source_db = "team"]

\* C22 as stated: every task a run created is stamped and all its remaining
\* fields, created_at and updated_at among them, are those of the mapped
\* source task.
C22_CreatedTaskIsMappedSource ==
    Synced =>
        \A k \in DOMAIN out.runs :
            /\ Len(Created(k)) = Len(Creations(k))
            /\ \A i \in DOMAIN Created(k) :
                  LET d == Created(k)[i]
                      source_task == Creations(k)[i].task
                      mapped == ApplyMapper(out.runs[k].rule.field_mapper, source_task)
                  IN /\ Stamped(d, k, source_task)
                     /\ [d EXCEPT !.id = mapped.id, !.source = mapped.source,
                                   !.external_id = mapped.external_id,
                                   !.metadata = mapped.metadata] = mapped

\* C22: every task a run created is stamped, its created_at and updated_at
\* are the time of the creation, and its remaining fields are those of the
\* mapped source task.
C22_CreatedTaskIsStampedMappedSource ==
    Synced =>
        \A k \in DOMAIN out.runs :
            /\ Len(Created(k)) = Len(Creations(k))
            /\ \A i \in DOMAIN Created(k) :
                  LET d == Created(k)[i]
                      source_task == Creations(k)[i].task
                      mapped == ApplyMapper(out.runs[k].rule.field_mapper, source_task)
                  IN /\ Stamped(d, k, source_task)
                     /\ d.created_at = out.now
                     /\ d.updated_at = out.now
                     /\ [d EXCEPT !.id = mapped.id, !.source = mapped.source,
                                   !.external_id = mapped.external_id,
                                   !.metadata = mapped.metadata,
                                   !.created_at = mapped.created_at,
                                   !.updated_at = mapped.updated_at] = mapped

\* C22 witness: a sync() call created a task from a source task carrying
\* provenance keys of its own, under a rule whose mapper supplies others.
C22_Witness ==
    /\ Synced
    /\ \E k \in DOMAIN out.runs :
          /\ out.runs[k].rule.field_mapper.kind = "provenance"
          /\ \E w \in DOMAIN out.runs[k].writes :
                 /\ out.runs[k].writes[w].op = "create"
                 /\ out.runs[k].writes[w].task.metadata.sync_source_db = "other"
    /\ \E j \in DOMAIN personal :
          /\ personal[j].metadata.sync_source_id = "b"
          /\ personal[j].metadata.sync_source_db = "team"

----------------------------------------------------------------------------
(* Properties of the tasks sync() updates.                                 *)

\* The destination task at position j of the start of run k is the one the
\* run takes for the synced copy of source_task: the last one carrying its
\* provenance
CopyOf(k, j, source_task) ==
    LET start == out.runs[k].dst
        mine(d) == /\ d.metadata.sync_source_id = source_id_of(source_task)
                   /\ d.metadata.sync_source_db = "team"
    IN /\ mine(start[j])
       /\ \A i \in (j + 1)..Len(start) : ~mine(start[i])

\* The updates of run k that went to that destination task, in order
UpdatesOf(k, j) ==
    SelectSeq(out.runs[k].writes,
              LAMBDA w : w.op = "update" /\ CopyOf(k, j, w.task))

\* What run k made of that destination task
Updated(k, j) ==
    LET old == out.runs[k].dst[j]
        from == UpdatesOf(k, j)
    IN IF from = <<>> THEN old
       ELSE LET mapped == ApplyMapper(out.runs[k].rule.field_mapper,
                                      from[Len(from)].task)
            IN [old EXCEPT !.title = mapped.title,
                           !.description = mapped.description,
                           !.status = mapped.status,
                           !.priority = mapped.priority,
                           !.due_date = mapped.due_date,
                           !.tags = mapped.tags,
                           !.updated_at = out.now]

\* Every destination task run k started with is, after the run, what the
\* run's updates made of it
UpdateFrame(k) ==
    /\ Len(out.runs[k].dst) <= Len(RunEnd(k))
    /\ \A j \in DOMAIN out.runs[k].dst : RunEnd(k)[j] = Updated(k, j)

\* C23: a run that updates a destination task changes its title, description,
\* status, priority, due date and tags to those of the mapped source task and
\* its updated_at to the time of the update, and nothing else of it; every
\* other destination task the run started with and the source are unchanged.
C23_UpdateChangesCopiedFieldsOnly ==
    [][Calls("sync") =>
          /\ team' = team
          /\ \A k \in DOMAIN out'.runs : UpdateFrame(k)'
      ]_vars

\* C23 witness: a run updated a destination task created at an earlier
\* instant from a source task that has since changed title and assignee; a
\* second destination task was there.
C23_Witness ==
    /\ Synced
    /\ \E k \in DOMAIN out.runs :
          /\ Len(out.runs[k].dst) = 2
          /\ \E j \in DOMAIN out.runs[k].dst :
                LET old == out.runs[k].dst[j]
                    from == UpdatesOf(k, j)
                IN /\ from # <<>>
                   /\ from[Len(from)].task.assignee = "bob"
                   /\ RunEnd(k)[j].title # old.title
                   /\ RunEnd(k)[j].updated_at # old.updated_at
                   /\ RunEnd(k)[j].assignee = None

\* Destination task d agrees with the mapped source task in the copied fields
Mirrors(d, mapped) ==
    /\ d.title = mapped.title
    /\ d.description = mapped.description
    /\ d.status = mapped.status
    /\ d.priority = mapped.priority
    /\ d.due_date = mapped.due_date
    /\ d.tags = mapped.tags

\* C30: after a run of a rule with sync_updates in which no error is recorded,
\* every source task the predicate accepts and whose status is not skipped
\* has a destination task carrying its provenance keys whose title,
\* description, status, priority, due date and tags are those of the mapped
\* source task.
C30_CounterpartMirrorsSource ==
    Synced =>
        \A k \in DOMAIN out.runs :
            LET rule == out.runs[k].rule
            IN rule.sync_updates /\ out.runs[k].result.errors = <<>> =>
                  \A i \in EligibleFor(rule) :
                      \E j \in DOMAIN RunEnd(k) :
                          /\ RunEnd(k)[j].metadata.sync_source_id = source_id_of(team[i])
                          /\ RunEnd(k)[j].metadata.sync_source_db = "team"
                          /\ Mirrors(RunEnd(k)[j],
                                     ApplyMapper(rule.field_mapper, team[i]))

----------------------------------------------------------------------------
(* Properties of the cache when the repositories are changed through the   *)
(* task service only.                                                      *)

\* C25: every identifier held in the cache exists in the team repository or
\* in the personal repository.
C25_CachedIdsAreStored ==
    Keys(cache) \subseteq Keys(team) \cup Keys(personal)

\* C25 witness: delete_task removed a cached task that no repository holds any
\* more, and another task is still cached.
C25_Witness ==
    /\ out.op = "delete_task"
    /\ out.value = TRUE
    /\ out.arg.id \notin Keys(team) \cup Keys(personal)
    /\ out.arg.id \notin Keys(cache)
    /\ cache # <<>>

\* C26: each cached task equals the record get_task loads on a cache miss:
\* the team repository's record when the id exists there, otherwise the
\* personal repository's.
C26_CacheEqualsLoadedRecord ==
    \A i \in DOMAIN cache :
        cache[i] = IF cache[i].id \in Keys(team)
                   THEN DictGet(team, cache[i].id)
                   ELSE DictGet(personal, cache[i].id)

\* The record the repositories hold for id: update_task writes the team
\* repository when the id exists there, otherwise the personal repository
Record(t, p, id) == IF id \in Keys(t) THEN DictGet(t, id) ELSE DictGet(p, id)

\* C27: a successful update_task_status(id, s) changes only the status and
\* updated_at of the repository's record for id; every other field of the
\* stored record is what the repository held just before the call.
C27_StatusUpdateKeepsStoredFields ==
    [][Calls("update_task_status") /\ ~out'.raised =>
          Record(team', personal', out'.arg.id) =
              [Record(team, personal, out'.arg.id) EXCEPT
                   !.status = out'.arg.status, !.updated_at = out'.arg.now]
      ]_vars

----------------------------------------------------------------------------
(* Properties of concurrent callers of the task service.                   *)

\* Every coroutine started has returned, none by raising
AllSucceeded ==
    /\ Len(inflight) = MaxCalls
    /\ \A i \in DOMAIN inflight : inflight[i].pc = "done" /\ ~inflight[i].raised

\* The change coroutine i was asked for is in task
Carries(task, i) ==
    /\ inflight[i].change.title # NoTitle => task.title = inflight[i].change.title
    /\ inflight[i].change.status # None => task.status = inflight[i].change.status

\* C24: when concurrent PATCH requests for one task have all succeeded, the
\* stored task is the full replacement value one of them built from the task
\* it had read, so it lacks every change that request's read did not carry: an
\* update is lost whenever the requests read before either wrote.
C24_StoredIsOneCallersValue ==
    AllSucceeded =>
        \E w \in DOMAIN inflight :
            /\ Record(team, personal, RaceId) = inflight[w].task
            /\ \A i \in DOMAIN inflight :
                   Carries(Record(team, personal, RaceId), i) <=>
                       \/ inflight[i].change = inflight[w].change
                       \/ Carries(inflight[w].read, i)

\* C24 witness: two requests changing different fields have both succeeded
\* and the stored task lacks the change of one of them.
C24_Witness ==
    /\ AllSucceeded
    /\ inflight[1].change.title # inflight[2].change.title
    /\ inflight[1].change.status # inflight[2].change.status
    /\ \E i \in DOMAIN inflight : ~Carries(Record(team, personal, RaceId), i)

\* C29: when concurrent update_task calls for one task have all completed,
\* the cache entry of the task equals the record stored in the repository.
C29_CacheEqualsStoredAfterUpdates ==
    AllSucceeded => cache_get(cache, RaceId) = Record(team, personal, RaceId)

----------------------------------------------------------------------------
(* Properties of concurrent sync() calls.                                  *)

\* C28: when concurrent sync() calls of one rule have all returned, the
\* destination holds at most one task per pair of sync_source_id and
\* sync_source_db.
C28_NoDuplicateAfterConcurrentSync ==
    /\ Len(inflight) = MaxCalls
    /\ \A i \in DOMAIN inflight : inflight[i].pc = "done"
    => \A j, k \in DOMAIN personal :
           /\ personal[j].metadata.sync_source_id # None
           /\ personal[j].metadata.sync_source_id = personal[k].metadata.sync_source_id
           /\ personal[j].metadata.sync_source_db = personal[k].metadata.sync_source_db
           => j = k

====
